---- MODULE Spec2Model ----
(***************************************************************************)
(* Echoes: semantic memory retrieval.                                      *)
(*                                                                         *)
(* Two screens load the user's memories from the Memory Store, normalise   *)
(* the stored embeddings (fetchMemories), and rank them against a query    *)
(* embedding by cosine similarity (performSemanticSearch):                 *)
(*   - the search screen, Echoes/app/(tabs)/therapist.tsx  (top 20),       *)
(*   - the chat screen,   unnamed/part_003                 (top 5, > 0.3). *)
(*                                                                         *)
(* Specifications.                                                         *)
(*   Spec        both screens load and rank, each handler in one step.     *)
(*   SpecCosine  cosineSimilarity on its own, over pairs of arguments.     *)
(*   SpecSearch  the search screen with performSearch split at its awaits, *)
(*               so that several searches can be in flight.                *)
(*   SpecChat    the chat screen with handleSendMessage split at its       *)
(*               awaits, and the request generateTherapistResponse builds. *)
(*   SpecDelete  the Memories screen (memories.tsx) next to the search     *)
(*               screen: fetchTranscripts, the detail modal, handleDelete. *)
(*   SpecOverlap the chat screen with messages sent while a reply is       *)
(*               pending; SpecOverlapFair adds that every waiting call     *)
(*               comes to its end.                                         *)
(*   SpecRecord  the record screen (record.tsx): stopRecording with the    *)
(*               polling loop of callAssemblyAI, saveToSupabase and        *)
(*               processAIFeatures.                                        *)
(*   SpecAuth    route protection ((tabs)/_layout.tsx): the tabs layout    *)
(*               and useAuthGuard against the session of the Auth Provider.*)
(*                                                                         *)
(* Values.                                                                 *)
(*   A JavaScript array is a record [len, at, nn, nan]: len is its length, *)
(*   at maps the positions (1..len) of its non-zero numbers to their       *)
(*   values, nn is the set of positions whose element is not of type       *)
(*   number (null, a string, ...), nan the set of positions that hold NaN. *)
(*   Every other position holds the number 0.                              *)
(*   A value of the embedding column is a record [kind, json, arr].        *)
(*   Numbers are exact integers: floating point rounding, Infinity and a   *)
(*   NaN born of arithmetic are outside the model.                         *)
(*   A similarity x = dot / (sqrt(normA) * sqrt(normB)) is held as the     *)
(*   reduced fraction of sgn(x) * x^2 = sgn(dot) * dot^2 / (normA*normB).  *)
(*   The map x |-> sgn(x) * x^2 is strictly increasing, so every           *)
(*   comparison the code makes between similarities (the sort comparator,  *)
(*   > 0.3, equality) has the same outcome on the held fractions.          *)
(***************************************************************************)
EXTENDS Integers, Sequences, FiniteSets, TLC

VARIABLES
    store,          \* Memory Store: the rows of table "memories", insertion order
    memories,       \* search screen: useState memories
    loading,        \* search screen: useState loading
    searchResults,  \* search screen: useState searchResults
    isSearching,    \* search screen: useState isSearching
    searchCall,     \* search screen: the last call of performSemanticSearch
    chatMemories,   \* chat screen: useState memories
    chatLoading,    \* chat screen: useState loading
    grounding,      \* chat screen: what the last getRelevantMemories returned
    chatCall,       \* chat screen: the call of performSemanticSearch made by the
                    \* last getRelevantMemories, if it made one
    argA,           \* cosineSimilarity on its own: its argument vecA
    argB,           \* cosineSimilarity on its own: its argument vecB
    simAB,          \* what cosineSimilarity(argA, argB) did
    simBA,          \* what cosineSimilarity(argB, argA) did
    searchQuery,    \* search screen: useState searchQuery, as an index of
                    \* QueryTexts; 0 is a text that trims to nothing
    alert,          \* search screen: the Alert raised by the last step of
                    \* performSearch, "none" if it raised none
    pending,        \* search screen: the calls of performSearch that wait for
                    \* the Auth and Embedding Provider
    submitted,      \* search screen: how many searches went out so far
    latest,         \* search screen: the search submitted last, and how it ended
    fetchResult,    \* search screen: how fetchMemories ended
    chatMessages,   \* chat screen: useState chatMessages
    inputMessage,   \* chat screen: useState inputMessage holds text (TRUE) or
                    \* trims to nothing (FALSE)
    isProcessing,   \* chat screen: useState isProcessing
    chatPending,    \* chat screen: the calls of handleSendMessage that wait for
                    \* the Embedding and Generation Provider
    sent,           \* chat screen: how many messages the user sent so far
    request,        \* chat screen: the last request to the Generation Provider
    transcripts,    \* Memories screen: useState transcripts
    transcriptsLoading, \* Memories screen: useState loading
    selectedMemory, \* Memories screen: the id of useState selectedMemory, 0 for null
    modalVisible,   \* Memories screen: useState modalVisible
    deletedIds,     \* Memories screen: the ids handleDelete has run to its end for
    recording,      \* record screen: useState recording is an Audio.Recording
                    \* (TRUE) or null (FALSE)
    isRecording,    \* record screen: useState isRecording
    recordIsProcessing, \* record screen: useState isProcessing
    transcript,     \* record screen: useState transcript
    recordAlert,    \* record screen: the Alert raised last, "none" before any
    poll,           \* record screen: the polling loop of callAssemblyAI: whether
                    \* it runs, the status read last, the text the Transcription
                    \* Provider makes of the recording, the rounds made
    recordings,     \* record screen: how many times startRecording ran
    saving,         \* record screen: the calls of saveToSupabase that wait for
                    \* the Auth Provider and the Memory Store
    saves,          \* record screen: how many times saveToSupabase ran
    saved,          \* Memory Store: the rows saveToSupabase inserted, by id,
                    \* with the number of updates applied to each
    jobs,           \* record screen: where the processAIFeatures call of each
                    \* inserted row stands
    session,        \* Auth Provider: the session has no user, a user, or a
                    \* user who must change the password
    route,          \* router: the screen shown
    sessionCheck,   \* tabs layout: its getSession() call is pending
    authEvents,     \* Auth Provider: the auth state events not yet delivered
                    \* to the onAuthStateChange listeners, each with its session
    guardUser,      \* useAuthGuard: useState user
    guardLoading,   \* useAuthGuard: useState loading
    protected       \* tabs layout: which of its checks redirected to the login
                    \* screen last: "mount" (getSession), "event" (listener)

searchVars == <<memories, loading, searchResults, isSearching, searchCall>>
chatVars == <<chatMemories, chatLoading, grounding, chatCall>>
cosineVars == <<argA, argB, simAB, simBA>>
searchStepVars == <<searchQuery, alert, pending, submitted, latest, fetchResult>>
chatStepVars == <<chatMessages, inputMessage, isProcessing, chatPending, sent, request>>

memoriesVars == <<transcripts, transcriptsLoading, selectedMemory, modalVisible, deletedIds>>

recordVars == <<recording, isRecording, recordIsProcessing, transcript, recordAlert,
                poll, recordings, saving, saves, saved, jobs>>
authVars == <<session, route, sessionCheck, authEvents, guardUser, guardLoading,
              protected>>

vars == <<store, searchVars, chatVars, cosineVars, searchStepVars, chatStepVars,
          memoriesVars, recordVars, authVars>>

(***************************************************************************)
(* Program constants                                                       *)
(***************************************************************************)
EMBEDDING_DIM == 768
TopKSearch == 20
TopKChat == 5
HistoryWindow == 6

(***************************************************************************)
(* Bounds of the model                                                     *)
(***************************************************************************)
MaxMem == 21        \* rows of the largest patterned store
MaxFree == 1        \* rows of a store whose shapes are chosen freely
MaxVecLen == 2      \* length of the longest vector built element by element
MaxSearches == 3    \* searches submitted in one run of the search screen
MaxSends == 5       \* messages sent in one run of the chat screen
MaxWaiting == 1     \* calls of handleSendMessage that wait at the same time
FlakySends == 2     \* the first messages, for which a provider may fail
MaxOverlap == 2     \* calls that wait at once when the text input submits again
MaxOverlapSends == 3  \* messages sent in a run with such calls
MaxRecordings == 1  \* recordings started in one run of the record screen
MaxPolls == 2       \* rounds of the polling loop of one recording
MaxSaves == 2       \* transcripts saved in one run of the record screen
MaxEvents == 2      \* auth state events that wait when a new one is made

Min(a, b) == IF a < b THEN a ELSE b
Abs(a) == IF a < 0 THEN 0 - a ELSE a

RECURSIVE GCD(_, _)
GCD(a, b) == IF b = 0 THEN a ELSE GCD(b, a % b)

(***************************************************************************)
(* JavaScript arrays                                                       *)
(***************************************************************************)
Arr(len, at, nn) == [len |-> len, at |-> at, nn |-> nn, nan |-> {}]
EmptyArr == Arr(0, <<>>, {})
Length(a) == a.len
\* a[i], for a position i that holds a number
Elem(a, i) == IF i \in DOMAIN a.at THEN a.at[i] ELSE 0

\* Array.prototype.slice(0, k)
Slice(a, k) ==
    [len |-> Min(k, a.len),
     at |-> [i \in {j \in DOMAIN a.at : j <= k} |-> a.at[i]],
     nn |-> {i \in a.nn : i <= k},
     nan |-> {i \in a.nan : i <= k}]

\* arr.every(val => typeof val === 'number')
EveryNumber(a) == a.nn = {}
\* arr.every(val => typeof val === 'number' && !isNaN(val))
EveryNumberNotNaN(a) == a.nn = {} /\ a.nan = {}

(***************************************************************************)
(* Values of the embedding column                                          *)
(***************************************************************************)
Null == [kind |-> "null", json |-> "none", arr |-> EmptyArr]
ArrayValue(a) == [kind |-> "array", json |-> "none", arr |-> a]
\* a string: JSON text of an array, JSON text of something else, or no JSON
StringValue(json, a) == [kind |-> "string", json |-> json, arr |-> a]
\* an object: its values field is an array, another truthy value, or missing
ObjectValue(json, a) == [kind |-> "object", json |-> json, arr |-> a]
NumberValue == [kind |-> "number", json |-> "none", arr |-> EmptyArr]

Truthy(v) == v.kind # "null"
IsArray(v) == v.kind = "array"

\* JSON.parse(text): throws on malformed text, else the value the text denotes
JSONParse(v) ==
    CASE v.json = "array" -> [threw |-> FALSE, value |-> ArrayValue(v.arr)]
      [] v.json = "scalar" -> [threw |-> FALSE, value |-> NumberValue]
      [] OTHER -> [threw |-> TRUE, value |-> Null]

\* obj.values
ValuesField(v) ==
    CASE v.json = "array" -> ArrayValue(v.arr)
      [] v.json = "scalar" -> NumberValue
      [] OTHER -> Null

(***************************************************************************)
(* fetchMemories: normalisation of one stored embedding                    *)
(***************************************************************************)
\* a normaliser that accepts the canonical length only
NormalizeArrayExact(v) ==
    IF Length(v.arr) = EMBEDDING_DIM THEN v ELSE Null

NormalizeArray(v) ==
    IF Length(v.arr) = EMBEDDING_DIM THEN v
    ELSE IF Length(v.arr) > EMBEDDING_DIM
         THEN ArrayValue(Slice(v.arr, EMBEDDING_DIM))
         ELSE Null

NormalizeString(v) ==
    LET p == JSONParse(v) IN
    IF ~p.threw /\ IsArray(p.value) /\ Length(p.value.arr) = EMBEDDING_DIM
    THEN p.value
    ELSE Null

NormalizeObject(v) ==
    LET f == ValuesField(v) IN
    IF IsArray(f) /\ Length(f.arr) = EMBEDDING_DIM THEN f ELSE Null

NormalizeEmbedding(v) ==
    CASE IsArray(v) -> NormalizeArray(v)
      [] v.kind = "string" -> NormalizeString(v)
      [] v.kind = "object" /\ Truthy(ValuesField(v)) -> NormalizeObject(v)
      [] OTHER -> Null

\* the callback of data.map: a row with a falsy embedding is returned as it is
ProcessMemory(memory) ==
    IF Truthy(memory.embedding)
    THEN [memory EXCEPT !.embedding = NormalizeEmbedding(memory.embedding)]
    ELSE memory

ProcessMemories(data) == [i \in 1..Len(data) |-> ProcessMemory(data[i])]

(***************************************************************************)
(* Similarities                                                            *)
(***************************************************************************)
\* the fraction n/d in lowest terms, d > 0
Fraction(n, d) == LET g == GCD(Abs(n), d) IN [n |-> n \div g, d |-> d \div g]
Zero == Fraction(0, 1)
SimLess(s, t) == s.n * t.d < t.n * s.d
SimLeq(s, t) == s.n * t.d <= t.n * s.d

\* the sum of f[i] over the positions i of S
RECURSIVE SumOver(_, _)
SumOver(f, S) ==
    IF S = {} THEN 0
    ELSE LET i == CHOOSE j \in S : TRUE IN f[i] + SumOver(f, S \ {i})

\* the loop of cosineSimilarity over i = 0 .. vecA.length - 1:
\* <<dotProduct, normA, normB>>. A position where both arrays hold 0 adds 0 to
\* each sum, so the sums run over the positions where one of them does not.
DotAndNorms(x, y) ==
    LET S == DOMAIN x.at \cup DOMAIN y.at
    IN << SumOver([i \in S |-> Elem(x, i) * Elem(y, i)], S),
          SumOver([i \in S |-> Elem(x, i) * Elem(x, i)], S),
          SumOver([i \in S |-> Elem(y, i) * Elem(y, i)], S) >>

\* What one evaluation of cosineSimilarity does: the number it returns, the
\* denominators it divided by (squared: normA * normB stands for
\* Math.sqrt(normA) * Math.sqrt(normB)), and whether it threw.
Returned(similarity) == [similarity |-> similarity, denominators |-> <<>>, threw |-> FALSE]
Divided(numerator, denominator) ==
    [similarity |-> Fraction(numerator, denominator),
     denominators |-> <<denominator>>, threw |-> FALSE]
\* 0 / 0 is NaN
NotANumber == [n |-> 0, d |-> 0]

\* cosineSimilarity without the Array.isArray test: reading .every of a value
\* that is no array throws a TypeError
cosineEvalNoArrayTest(vecA, vecB) ==
    IF ~IsArray(vecA) \/ ~IsArray(vecB)
    THEN [similarity |-> Zero, denominators |-> <<>>, threw |-> TRUE]
    ELSE IF Length(vecA.arr) # Length(vecB.arr) THEN Returned(Zero)
    ELSE IF ~EveryNumberNotNaN(vecA.arr) \/ ~EveryNumberNotNaN(vecB.arr) THEN Returned(Zero)
    ELSE LET s == DotAndNorms(vecA.arr, vecB.arr)
         IN IF s[2] = 0 \/ s[3] = 0 THEN Returned(Zero)
            ELSE Divided((IF s[1] < 0 THEN 0 - 1 ELSE 1) * s[1] * s[1], s[2] * s[3])

\* cosineSimilarity without the test of the norms: it divides by 0
cosineEvalNoNormTest(vecA, vecB) ==
    IF ~IsArray(vecA) \/ ~IsArray(vecB) THEN Returned(Zero)
    ELSE IF Length(vecA.arr) # Length(vecB.arr) THEN Returned(Zero)
    ELSE IF ~EveryNumberNotNaN(vecA.arr) \/ ~EveryNumberNotNaN(vecB.arr) THEN Returned(Zero)
    ELSE LET s == DotAndNorms(vecA.arr, vecB.arr)
         IN IF s[2] = 0 \/ s[3] = 0
            THEN [similarity |-> NotANumber, denominators |-> <<0>>, threw |-> FALSE]
            ELSE Divided((IF s[1] < 0 THEN 0 - 1 ELSE 1) * s[1] * s[1], s[2] * s[3])

\* cosineSimilarity dividing by the norm of vecA alone
cosineEvalNormOfA(vecA, vecB) ==
    IF ~IsArray(vecA) \/ ~IsArray(vecB) THEN Returned(Zero)
    ELSE IF Length(vecA.arr) # Length(vecB.arr) THEN Returned(Zero)
    ELSE IF ~EveryNumberNotNaN(vecA.arr) \/ ~EveryNumberNotNaN(vecB.arr) THEN Returned(Zero)
    ELSE LET s == DotAndNorms(vecA.arr, vecB.arr)
         IN IF s[2] = 0 \/ s[3] = 0 THEN Returned(Zero)
            ELSE Divided((IF s[1] < 0 THEN 0 - 1 ELSE 1) * s[1] * s[1], s[2] * s[2])

\* one evaluation of cosineSimilarity(vecA, vecB)
cosineEval(vecA, vecB) ==
    IF ~IsArray(vecA) \/ ~IsArray(vecB) THEN Returned(Zero)
    ELSE IF Length(vecA.arr) # Length(vecB.arr) THEN Returned(Zero)
    ELSE IF ~EveryNumberNotNaN(vecA.arr) \/ ~EveryNumberNotNaN(vecB.arr) THEN Returned(Zero)
    ELSE LET s == DotAndNorms(vecA.arr, vecB.arr)
             dotProduct == s[1]
             normA == s[2]
             normB == s[3]
         IN IF normA = 0 \/ normB = 0 THEN Returned(Zero)
            ELSE Divided((IF dotProduct < 0 THEN 0 - 1 ELSE 1) * dotProduct * dotProduct,
                         normA * normB)

\* cosineSimilarity(vecA, vecB): the number returned
cosineSimilarity(vecA, vecB) == cosineEval(vecA, vecB).similarity

(***************************************************************************)
(* The inputs of the model: vectors, stored embeddings, stores, queries    *)
(***************************************************************************)
\* the array of numbers of length len that starts with head, ends with last
\* and holds 0 between
Vec(head, len, last) ==
    LET elem(i) == IF i <= Len(head) THEN head[i] ELSE IF i = len THEN last ELSE 0
    IN Arr(len, [i \in {j \in (1..Len(head)) \cup {len} : j <= len /\ elem(j) # 0}
                    |-> elem(i)], {})
\* the array a with non-numbers at the positions nn
WithNonNumbers(a, nn) ==
    Arr(a.len, [i \in DOMAIN a.at \ nn |-> a.at[i]], nn)

\* Against the query <<1, 0, ...>> these heads score 1, 1/sqrt(2), exactly 0.3,
\* 1/sqrt(17) (below 0.3), 0, -1 and 1 again (a tie with the first).
Heads == << <<1>>, <<1, 1>>, <<3, 9, 3, 1>>, <<1, 4>>, <<0, 1>>, <<0 - 1>>, <<2>> >>

Canonical(head) == Vec(head, EMBEDDING_DIM, 0)
\* one element too many, and the extra element is not 0
Oversized(head) == Vec(head, EMBEDDING_DIM + 1, 9)
Undersized(head) == Vec(head, EMBEDDING_DIM - 1, 0)

ValidShapes == [k \in 1..Len(Heads) |-> ArrayValue(Canonical(Heads[k]))]

OtherShapes == <<
    Null,
    ArrayValue(Oversized(<<1>>)),
    ArrayValue(Undersized(<<1>>)),
    ArrayValue(EmptyArr),
    ArrayValue(Canonical(<<0>>)),                                   \* all zero
    ArrayValue(WithNonNumbers(Canonical(<<1>>), {2})),
    ArrayValue(WithNonNumbers(Oversized(<<1, 1>>), {EMBEDDING_DIM + 1})),
    StringValue("array", Canonical(<<1, 1>>)),
    StringValue("array", Oversized(<<1>>)),
    StringValue("array", Undersized(<<1>>)),
    StringValue("scalar", EmptyArr),
    StringValue("malformed", EmptyArr),
    ObjectValue("array", Canonical(<<3, 9, 3, 1>>)),
    ObjectValue("array", Oversized(<<1>>)),
    ObjectValue("scalar", EmptyArr),
    ObjectValue("none", EmptyArr),
    NumberValue >>

RawShapes == ValidShapes \o OtherShapes

Row(id, created_at, embedding) ==
    [id |-> id, created_at |-> created_at, embedding |-> embedding]

\* stores of up to MaxFree rows, created one after the other, of every shape
FreeStores ==
    UNION {{[i \in 1..n |-> Row(i, i, RawShapes[choice[i]])]
              : choice \in [1..n -> 1..Len(RawShapes)]}
           : n \in 0..MaxFree}

\* stores of n rows that run through a list of shapes with a stride;
\* with paired = TRUE two consecutive rows share their created_at
PatternStore(n, shapes, stride, paired) ==
    [i \in 1..n |->
        Row(i, IF paired THEN (i + 1) \div 2 ELSE i,
            shapes[(((i - 1) * stride) % Len(shapes)) + 1])]

\* sizes around the two limits on the number of results
PatternSizes == (2..(TopKChat + 2)) \cup ((TopKSearch - 1)..MaxMem)

PatternStores ==
    {PatternStore(n, ValidShapes, 1, FALSE) : n \in PatternSizes}
    \cup {PatternStore(n, RawShapes, 7, FALSE) : n \in PatternSizes}
    \cup {PatternStore(n, ValidShapes, 3, TRUE) : n \in PatternSizes}

Stores == FreeStores \cup PatternStores

\* what generateEmbedding can resolve to: null on failure, else
\* data.embedding.values: two canonical queries and one of the wrong dimension
QueryEmbeddings ==
    { ArrayValue(Canonical(<<1>>)),
      ArrayValue(Canonical(<<0, 1>>)),
      ArrayValue(Undersized(<<1>>)) }

\* The arguments of cosineSimilarity taken on its own: every array of at most
\* MaxVecLen elements drawn from VecElements, values that are no array, and
\* vectors of the canonical dimension.
Num(v) == [type |-> "number", v |-> v]
NaN == [type |-> "NaN", v |-> 0]
NotNumber == [type |-> "other", v |-> 0]
VecElements == {Num(0), Num(1), Num(0 - 2), NaN, NotNumber}
FromElements(s) ==
    [len |-> Len(s),
     at |-> [i \in {j \in DOMAIN s : s[j].type = "number" /\ s[j].v # 0} |-> s[i].v],
     nn |-> {i \in DOMAIN s : s[i].type = "other"},
     nan |-> {i \in DOMAIN s : s[i].type = "NaN"}]
SmallArrays ==
    {FromElements(s) : s \in UNION {[1..n -> VecElements] : n \in 0..MaxVecLen}}
CosineArguments ==
    {ArrayValue(a) : a \in SmallArrays}
    \cup {Null, NumberValue, StringValue("array", Canonical(<<1>>)),
          ArrayValue(Canonical(<<1>>)), ArrayValue(Canonical(<<3, 9, 3, 1>>)),
          ArrayValue(Canonical(<<0 - 1>>)), ArrayValue(Canonical(<<>>)),
          ArrayValue(Undersized(<<1>>))}

(***************************************************************************)
(* The Memory Store query of fetchMemories                                 *)
(***************************************************************************)
\* rows with x put in its place by created_at descending; the store leaves
\* the order of rows with equal created_at open: ties is "asc" or "desc"
InsertByCreatedAt(sorted, x, ties) ==
    LET k == Cardinality({j \in 1..Len(sorted) :
                 \/ sorted[j].created_at > x.created_at
                 \/ sorted[j].created_at = x.created_at /\ ties = "asc"})
    IN SubSeq(sorted, 1, k) \o <<x>> \o SubSeq(sorted, k + 1, Len(sorted))

RECURSIVE OrderByCreatedAtDesc(_, _)
OrderByCreatedAtDesc(rows, ties) ==
    IF rows = <<>> THEN <<>>
    ELSE InsertByCreatedAt(
             OrderByCreatedAtDesc(SubSeq(rows, 1, Len(rows) - 1), ties),
             rows[Len(rows)], ties)

(***************************************************************************)
(* performSemanticSearch                                                   *)
(***************************************************************************)
\* a validity test that forgets the element types
hasValidEmbeddingLengthOnly(memory) ==
    /\ Truthy(memory.embedding)
    /\ IsArray(memory.embedding)
    /\ Length(memory.embedding.arr) = EMBEDDING_DIM

\* memory.embedding && Array.isArray(memory.embedding) &&
\* memory.embedding.length === 768 && memory.embedding.every(typeof val === 'number')
hasValidEmbedding(memory) ==
    /\ Truthy(memory.embedding)
    /\ IsArray(memory.embedding)
    /\ Length(memory.embedding.arr) = EMBEDDING_DIM
    /\ EveryNumber(memory.embedding.arr)

memoriesWithValidEmbeddings(mems) == SelectSeq(mems, hasValidEmbedding)

\* .map(memory => ({ memory, similarity: cosineSimilarity(queryEmbedding, memory.embedding) }))
Scored(queryEmbedding, mems) ==
    LET valid == memoriesWithValidEmbeddings(mems)
    IN [i \in 1..Len(valid) |->
           [memory |-> valid[i],
            similarity |-> cosineSimilarity(queryEmbedding, valid[i].embedding)]]

\* the comparator turned round: a.similarity - b.similarity
InsertBySimilarityAscending(sorted, x) ==
    LET k == Cardinality({j \in 1..Len(sorted) :
                 SimLeq(sorted[j].similarity, x.similarity)})
    IN SubSeq(sorted, 1, k) \o <<x>> \o SubSeq(sorted, k + 1, Len(sorted))

\* a sort that puts x in front of the elements it compares equal to
InsertBySimilarityUnstable(sorted, x) ==
    LET k == Cardinality({j \in 1..Len(sorted) :
                 SimLess(x.similarity, sorted[j].similarity)})
    IN SubSeq(sorted, 1, k) \o <<x>> \o SubSeq(sorted, k + 1, Len(sorted))

\* Array.prototype.sort((a, b) => b.similarity - a.similarity): a stable sort,
\* so x goes behind every element that does not compare after it
InsertBySimilarity(sorted, x) ==
    LET k == Cardinality({j \in 1..Len(sorted) :
                 SimLeq(x.similarity, sorted[j].similarity)})
    IN SubSeq(sorted, 1, k) \o <<x>> \o SubSeq(sorted, k + 1, Len(sorted))

RECURSIVE SortBySimilarityDesc(_)
SortBySimilarityDesc(scored) ==
    IF scored = <<>> THEN <<>>
    ELSE InsertBySimilarity(
             SortBySimilarityDesc(SubSeq(scored, 1, Len(scored) - 1)),
             scored[Len(scored)])

\* .map(result => ({ ...result.memory, similarity: result.similarity }))
WithSimilarity(scored) ==
    [i \in 1..Len(scored) |->
        [field \in DOMAIN scored[i].memory \cup {"similarity"} |->
            IF field = "similarity" THEN scored[i].similarity
            ELSE scored[i].memory[field]]]

\* the threshold 0.3 of the chat screen, as sgn(x) * x^2
MinSimilarity == Fraction(9, 100)

\* a threshold of 0.2 in place of 0.3
AboveLowerThreshold(result) == SimLess(Fraction(4, 100), result.similarity)

AboveThreshold(result) == SimLess(MinSimilarity, result.similarity)

\* the search screen: sort, slice(0, 20)
performSemanticSearch(queryEmbedding, mems) ==
    IF Len(memoriesWithValidEmbeddings(mems)) = 0 THEN <<>>
    ELSE LET sorted == SortBySimilarityDesc(Scored(queryEmbedding, mems))
         IN WithSimilarity(SubSeq(sorted, 1, Min(TopKSearch, Len(sorted))))

\* the chat ranker with slice(0, 5) in front of the sort
chatPerformSemanticSearchSliceFirst(queryEmbedding, mems) ==
    IF Len(memoriesWithValidEmbeddings(mems)) = 0 THEN <<>>
    ELSE LET scored == Scored(queryEmbedding, mems)
             top == SubSeq(scored, 1, Min(TopKChat, Len(scored)))
         IN WithSimilarity(SelectSeq(SortBySimilarityDesc(top), AboveThreshold))

\* the chat screen: sort, slice(0, 5), filter(similarity > 0.3)
chatPerformSemanticSearch(queryEmbedding, mems) ==
    IF Len(memoriesWithValidEmbeddings(mems)) = 0 THEN <<>>
    ELSE LET sorted == SortBySimilarityDesc(Scored(queryEmbedding, mems))
             top == SubSeq(sorted, 1, Min(TopKChat, Len(sorted)))
         IN WithSimilarity(SelectSeq(top, AboveThreshold))

\* memories.filter(memory => memory.embedding && memory.embedding.length > 0)
hasEmbedding(memory) ==
    Truthy(memory.embedding) /\ Length(memory.embedding.arr) > 0

memoriesWithEmbeddings(mems) == SelectSeq(mems, hasEmbedding)

(***************************************************************************)
(* getRelevantMemories and generateTherapistResponse                       *)
(***************************************************************************)
\* getRelevantMemories(userMessage), from the embedding of the message on
getRelevantMemories(queryEmbedding, mems) ==
    IF ~Truthy(queryEmbedding) THEN <<>>
    ELSE IF Len(memoriesWithEmbeddings(mems)) = 0 THEN <<>>
    ELSE chatPerformSemanticSearch(queryEmbedding, memoriesWithEmbeddings(mems))

\* created_at counts half days; toLocaleDateString() keeps the day
StampsPerDay == 2
LocaleDate(created_at) == created_at \div StampsPerDay

\* one line of the prompt; a field a line has no use for is 0
Line(kind, memory, date, text) ==
    [kind |-> kind, memory |-> memory, date |-> date, text |-> text]

\* the lines one memory adds to memoryContext
MemoryLines(memory) ==
    << Line("memory", memory.id, LocaleDate(memory.created_at), memory.transcript) >>
    \o (IF memory.summary # 0
        THEN << Line("summary", memory.id, 0, memory.summary) >>
        ELSE << >>)
    \o << Line("blank", 0, 0, 0) >>

RECURSIVE MemoryContextReversed(_)
\* memoryContext with the memories taken from the last to the first
MemoryContextReversed(relevantMemories) ==
    IF Len(relevantMemories) = 0 THEN << >>
    ELSE MemoryLines(relevantMemories[Len(relevantMemories)])
         \o MemoryContextReversed(SubSeq(relevantMemories, 1, Len(relevantMemories) - 1))

RECURSIVE MemoryContextLines(_)
\* relevantMemories.forEach(memory => memoryContext += ...)
MemoryContextLines(relevantMemories) ==
    IF Len(relevantMemories) = 0 THEN << >>
    ELSE MemoryLines(Head(relevantMemories)) \o MemoryContextLines(Tail(relevantMemories))

\* memoryContext that starts with its heading whatever the list holds
MemoryContextWithPlaceholder(relevantMemories) ==
    << Line("heading", 0, 0, 0) >> \o MemoryContextLines(relevantMemories)

\* memoryContext: empty, or the heading and the lines of the memories
MemoryContext(relevantMemories) ==
    IF Len(relevantMemories) > 0
    THEN << Line("heading", 0, 0, 0) >> \o MemoryContextLines(relevantMemories)
    ELSE << >>

\* slice(-7)
RecentMessagesOneMore(messages) ==
    SubSeq(messages, Len(messages) - Min(HistoryWindow + 1, Len(messages)) + 1, Len(messages))

\* chatMessages.slice(-6)
RecentMessages(messages) ==
    SubSeq(messages, Len(messages) - Min(HistoryWindow, Len(messages)) + 1, Len(messages))

\* conversationHistory: one line for each recent message
ConversationHistory(recentMessages) ==
    [i \in 1..Len(recentMessages) |->
        [speaker |-> IF recentMessages[i].role = "user" THEN "User" ELSE "You",
         content |-> recentMessages[i].content]]

SystemPrompt == [kind |-> "system prompt", n |-> 0]

\* conversationContents: the system prompt, the recent messages, the message
ConversationContents(recentMessages, userMessage) ==
    << [role |-> "user", text |-> SystemPrompt] >>
    \o [i \in 1..Len(recentMessages) |->
           [role |-> IF recentMessages[i].role = "user" THEN "user" ELSE "model",
            text |-> recentMessages[i].content]]
    \o << [role |-> "user", text |-> userMessage] >>

\* the request generateTherapistResponse(userMessage, relevantMemories) makes
\* for message n when the render it runs in holds the chatMessages messages
GenerationRequest(n, userMessage, relevantMemories, messages) ==
    [n |-> n,
     memoryContext |-> MemoryContext(relevantMemories),
     conversationHistory |-> ConversationHistory(RecentMessages(messages)),
     contents |-> ConversationContents(RecentMessages(messages), userMessage)]

(***************************************************************************)
(* The state after construction                                            *)
(***************************************************************************)
NoCall == [called |-> FALSE, queryEmbedding |-> Null, scored |-> <<>>]
RankCall(queryEmbedding, mems) ==
    [called |-> TRUE, queryEmbedding |-> queryEmbedding,
     scored |-> Scored(queryEmbedding, mems)]

\* the screens before their first effect has run
ScreensMounted ==
    /\ memories = <<>>
    /\ loading = TRUE
    /\ searchResults = <<>>
    /\ isSearching = FALSE
    /\ searchCall = NoCall
    /\ chatMemories = <<>>
    /\ chatLoading = TRUE
    /\ grounding = [status |-> "none", value |-> <<>>, embedding |-> "none"]
    /\ chatCall = NoCall

\* no call of cosineSimilarity on its own
NotCalled == [similarity |-> Zero, denominators |-> <<>>, threw |-> FALSE, called |-> FALSE]
CosineIdle ==
    /\ argA = Null
    /\ argB = Null
    /\ simAB = NotCalled
    /\ simBA = NotCalled

\* what one call of getRelevantMemories leaves behind: the value it returned
\* and whether generateEmbedding gave it an embedding or null
Grounding(queryEmbedding, mems) ==
    [status |-> "returned",
     value |-> getRelevantMemories(queryEmbedding, mems),
     embedding |-> IF Truthy(queryEmbedding) THEN "answered" ELSE "failed"]
GroundingCall(queryEmbedding, mems) ==
    IF Truthy(queryEmbedding) /\ Len(memoriesWithEmbeddings(mems)) # 0
    THEN RankCall(queryEmbedding, memoriesWithEmbeddings(mems))
    ELSE NoCall

\* the chat screen before the first message
NoRequest == [n |-> 0, memoryContext |-> <<>>, conversationHistory |-> <<>>,
              contents |-> <<>>]
ChatIdle ==
    /\ chatMessages = <<>>
    /\ inputMessage = FALSE
    /\ isProcessing = FALSE
    /\ chatPending = {}
    /\ sent = 0
    /\ request = NoRequest

\* the Memories screen before its effect has run
MemoriesIdle ==
    /\ transcripts = <<>>
    /\ transcriptsLoading = TRUE
    /\ selectedMemory = 0
    /\ modalVisible = FALSE
    /\ deletedIds = {}

\* the record screen before any recording
NoPoll == [active |-> FALSE, status |-> "none", text |-> "", polls |-> 0]
RecordIdle ==
    /\ recording = FALSE
    /\ isRecording = FALSE
    /\ recordIsProcessing = FALSE
    /\ transcript = ""
    /\ recordAlert = "none"
    /\ poll = NoPoll
    /\ recordings = 0
    /\ saving = {}
    /\ saves = 0
    /\ saved = <<>>
    /\ jobs = <<>>

\* the app on its login screen, no session, the root layout still loading
AuthIdle ==
    /\ session = "none"
    /\ route = "login"
    /\ sessionCheck = FALSE
    /\ authEvents = <<>>
    /\ guardUser = "none"
    /\ guardLoading = TRUE
    /\ protected = "none"

\* no search submitted yet
NoSearch == [id |-> 0, query |-> 0, outcome |-> "none"]
SearchIdle ==
    /\ searchQuery = 0
    /\ alert = "none"
    /\ pending = {}
    /\ submitted = 0
    /\ latest = NoSearch
    /\ fetchResult = "none"

Init ==
    /\ store \in Stores
    /\ ScreensMounted
    /\ CosineIdle
    /\ SearchIdle
    /\ ChatIdle
    /\ MemoriesIdle
    /\ RecordIdle
    /\ AuthIdle

(***************************************************************************)
(* The search screen                                                       *)
(***************************************************************************)
\* fetchMemories, run by the effect at mount. The session has no user, the
\* query fails, or it returns the rows by created_at descending.
FetchMemories ==
    /\ loading
    /\ \E outcome \in {"no user", "error", "data"}, ties \in {"asc", "desc"} :
          /\ memories' =
                CASE outcome = "no user" -> <<>>
                  [] outcome = "error" -> memories
                  [] OTHER -> ProcessMemories(OrderByCreatedAtDesc(store, ties))
          /\ fetchResult' = outcome
    /\ loading' = FALSE
    /\ UNCHANGED <<store, searchResults, isSearching, searchCall>>
    /\ UNCHANGED <<searchQuery, alert, pending, submitted, latest>>
    /\ UNCHANGED chatVars
    /\ UNCHANGED cosineVars
    /\ UNCHANGED chatStepVars
    /\ UNCHANGED memoriesVars
    /\ UNCHANGED <<recordVars, authVars>>

\* performSearch, from its first line to its finally block. The search
\* controls are rendered once loading is false. A call that ends in an Alert
\* (blank query, no user, no query embedding, no memory with an embedding)
\* leaves the state as it is.
\*   blank: searchQuery.trim() is empty;  user: getUser gives a user;
\*   queryEmbedding: what generateEmbedding resolves to
PerformSearch ==
    /\ ~loading
    /\ \E blank \in BOOLEAN, user \in BOOLEAN,
          queryEmbedding \in QueryEmbeddings \cup {Null} :
          LET candidates == memoriesWithEmbeddings(memories)
              ranks == ~blank /\ user /\ Truthy(queryEmbedding) /\ Len(candidates) # 0
          IN /\ searchResults' =
                    IF ranks THEN performSemanticSearch(queryEmbedding, candidates)
                    ELSE searchResults
             /\ searchCall' =
                    IF ranks THEN RankCall(queryEmbedding, candidates) ELSE searchCall
             /\ alert' =
                    CASE blank -> "Please enter a search query"
                      [] ~user -> "User not authenticated"
                      [] ~Truthy(queryEmbedding) -> "Failed to process search query"
                      [] Len(candidates) = 0 -> "No searchable memories"
                      [] OTHER -> "none"
    /\ isSearching' = FALSE
    /\ UNCHANGED <<store, memories, loading>>
    /\ UNCHANGED <<searchQuery, pending, submitted, latest, fetchResult>>
    /\ UNCHANGED chatVars
    /\ UNCHANGED cosineVars
    /\ UNCHANGED chatStepVars
    /\ UNCHANGED memoriesVars
    /\ UNCHANGED <<recordVars, authVars>>

(***************************************************************************)
(* The chat screen                                                         *)
(***************************************************************************)
\* fetchMemories of the chat screen: the same code as the search screen's
ChatFetchMemories ==
    /\ chatLoading
    /\ \E outcome \in {"no user", "error", "data"}, ties \in {"asc", "desc"} :
          chatMemories' =
              CASE outcome = "no user" -> <<>>
                [] outcome = "error" -> chatMemories
                [] OTHER -> ProcessMemories(OrderByCreatedAtDesc(store, ties))
    /\ chatLoading' = FALSE
    /\ UNCHANGED <<store, grounding, chatCall>>
    /\ UNCHANGED searchVars
    /\ UNCHANGED searchStepVars
    /\ UNCHANGED cosineVars
    /\ UNCHANGED chatStepVars
    /\ UNCHANGED memoriesVars
    /\ UNCHANGED <<recordVars, authVars>>

\* getRelevantMemories(userMessage), called by handleSendMessage
GetRelevantMemories ==
    /\ ~chatLoading
    /\ \E queryEmbedding \in QueryEmbeddings \cup {Null} :
          /\ grounding' = Grounding(queryEmbedding, chatMemories)
          /\ chatCall' = GroundingCall(queryEmbedding, chatMemories)
    /\ UNCHANGED <<store, chatMemories, chatLoading>>
    /\ UNCHANGED searchVars
    /\ UNCHANGED searchStepVars
    /\ UNCHANGED cosineVars
    /\ UNCHANGED chatStepVars
    /\ UNCHANGED memoriesVars
    /\ UNCHANGED <<recordVars, authVars>>

Next ==
    \/ FetchMemories
    \/ PerformSearch
    \/ ChatFetchMemories
    \/ GetRelevantMemories

Spec == Init /\ [][Next]_vars

(***************************************************************************)
(* The search screen, one await at a time                                  *)
(***************************************************************************)
\* the texts the user types, and what the Embedding Provider makes of them
QueryTexts == << ArrayValue(Canonical(<<1>>)), ArrayValue(Canonical(<<0, 1>>)) >>

\* stores for the search screen: no row; rows with valid embeddings; rows
\* without embedding; rows whose embedding has 768 elements, one of them no
\* number
SearchStores ==
    { <<>>,
      PatternStore(3, ValidShapes, 1, FALSE),
      << Row(1, 1, Null), Row(2, 2, ArrayValue(Undersized(<<1>>))) >>,
      << Row(1, 1, ArrayValue(WithNonNumbers(Canonical(<<1>>), {2}))) >> }

InitSearch ==
    /\ store \in SearchStores
    /\ ScreensMounted
    /\ CosineIdle
    /\ SearchIdle
    /\ ChatIdle
    /\ MemoriesIdle
    /\ RecordIdle
    /\ AuthIdle

\* onChangeText={setSearchQuery}
SetSearchQuery ==
    /\ ~loading
    /\ \E text \in 0..Len(QueryTexts) :
          /\ text # searchQuery
          /\ searchQuery' = text
    /\ UNCHANGED <<store, searchVars, chatVars, cosineVars, chatStepVars>>
    /\ UNCHANGED <<alert, pending, submitted, latest, fetchResult>>
    /\ UNCHANGED memoriesVars
    /\ UNCHANGED <<recordVars, authVars>>

\* performSearch up to its first await. The search button is disabled while
\* isSearching; onSubmitEditing of the text input is not.
SubmitSearch ==
    /\ ~loading
    /\ \E control \in {"button", "input"} :
          control = "button" => ~isSearching
    /\ IF searchQuery = 0
       THEN /\ alert' = "Please enter a search query"
            /\ UNCHANGED <<isSearching, pending, submitted, latest>>
       ELSE /\ submitted < MaxSearches
            /\ alert' = "none"
            /\ isSearching' = TRUE
            /\ submitted' = submitted + 1
            /\ pending' = pending \cup
                   {[id |-> submitted + 1, query |-> searchQuery, memories |-> memories]}
            /\ latest' = [id |-> submitted + 1, query |-> searchQuery,
                          outcome |-> "pending"]
    /\ UNCHANGED <<store, memories, loading, searchResults, searchCall>>
    /\ UNCHANGED <<searchQuery, fetchResult>>
    /\ UNCHANGED <<chatVars, cosineVars, chatStepVars>>
    /\ UNCHANGED memoriesVars
    /\ UNCHANGED <<recordVars, authVars>>

\* performSearch from its first await to its finally block, for one of the
\* searchResults at the end of a search that clears the list when it ends
\* without a ranking
EndOfSearchCleared(outcome, ranked, shown) ==
    IF outcome = "results" THEN ranked ELSE <<>>

\* searchResults at the end of performSearch: setSearchResults(results) is
\* reached only past the four early ends, each an Alert and a return
EndOfSearch(outcome, ranked, shown) ==
    IF outcome = "results" THEN ranked ELSE shown

\* calls that wait: getUser gives a user, gives none or rejects; the
\* Embedding Provider answers or generateEmbedding resolves to null. The call
\* sees the searchQuery and the memories of the render that made it.
ResolveSearch ==
    \E call \in pending, user \in {"user", "none", "rejects"}, provider \in BOOLEAN :
        LET queryEmbedding == IF provider THEN QueryTexts[call.query] ELSE Null
            candidates == memoriesWithEmbeddings(call.memories)
            outcome ==
                CASE user = "rejects" -> "Search failed"
                  [] user = "none" -> "User not authenticated"
                  [] ~Truthy(queryEmbedding) -> "Failed to process search query"
                  [] Len(candidates) = 0 -> "No searchable memories"
                  [] OTHER -> "results"
        IN /\ searchResults' =
                  EndOfSearch(outcome,
                              performSemanticSearch(queryEmbedding, candidates),
                              searchResults)
           /\ searchCall' =
                  IF outcome = "results" THEN RankCall(queryEmbedding, candidates)
                  ELSE searchCall
           /\ alert' = IF outcome = "results" THEN "none" ELSE outcome
           /\ isSearching' = FALSE
           /\ pending' = pending \ {call}
           /\ latest' = IF call.id = latest.id
                        THEN [id |-> latest.id, query |-> latest.query, outcome |-> outcome]
                        ELSE latest
           /\ UNCHANGED <<store, memories, loading, searchQuery, submitted, fetchResult>>
           /\ UNCHANGED <<chatVars, cosineVars, chatStepVars>>
           /\ UNCHANGED memoriesVars
           /\ UNCHANGED <<recordVars, authVars>>

NextSearch ==
    \/ FetchMemories
    \/ SetSearchQuery
    \/ SubmitSearch
    \/ ResolveSearch

SpecSearch == InitSearch /\ [][NextSearch]_vars

(***************************************************************************)
(* The chat screen, one await at a time                                    *)
(***************************************************************************)
\* a row with its transcript, and a summary (0: none) for the odd ids
WithText(row) ==
    [field \in DOMAIN row \cup {"transcript", "summary"} |->
        CASE field = "transcript" -> 100 + row.id
          [] field = "summary" -> IF row.id % 2 = 1 THEN 200 + row.id ELSE 0
          [] OTHER -> row[field]]
WithTexts(rows) == [i \in 1..Len(rows) |-> WithText(rows[i])]

\* stores for the chat screen: no row; rows with valid embeddings; one row
\* that no query comes close to
ChatStores ==
    { <<>>,
      WithTexts(PatternStore(4, ValidShapes, 1, FALSE)),
      WithTexts(<< Row(1, 1, ArrayValue(Canonical(<<0, 0, 1>>))) >>) }

\* what the Embedding Provider makes of the n-th message of the user
ChatQuery(n) == IF n % 2 = 1 THEN ArrayValue(Canonical(<<1>>))
                ELSE ArrayValue(Canonical(<<0, 1>>))

UserText(n) == [kind |-> "user text", n |-> n]
Message(n, role, content, relevantMemories) ==
    [n |-> n, role |-> role, content |-> content, relevantMemories |-> relevantMemories]

InitChat ==
    /\ store \in ChatStores
    /\ ScreensMounted
    /\ CosineIdle
    /\ SearchIdle
    /\ ChatIdle
    /\ MemoriesIdle
    /\ RecordIdle
    /\ AuthIdle

\* onChangeText={setInputMessage}
SetInputMessage ==
    /\ ~chatLoading
    /\ inputMessage' = ~inputMessage
    /\ UNCHANGED <<store, searchVars, chatVars, cosineVars, searchStepVars>>
    /\ UNCHANGED <<chatMessages, isProcessing, chatPending, sent, request>>
    /\ UNCHANGED memoriesVars
    /\ UNCHANGED <<recordVars, authVars>>

\* handleSendMessage up to its first await. The send button is disabled
\* while isProcessing or without text; onSubmitEditing of the text input is
\* not. The call keeps the chatMessages and memories of the render it was
\* made in.
SendMessage ==
    /\ ~chatLoading
    /\ inputMessage
    /\ \E control \in {"button", "input"} :
          control = "button" => ~isProcessing
    /\ sent < MaxSends
    /\ Cardinality(chatPending) < MaxWaiting
    /\ chatMessages' = Append(chatMessages, Message(sent + 1, "user", UserText(sent + 1), <<>>))
    /\ inputMessage' = FALSE
    /\ isProcessing' = TRUE
    /\ sent' = sent + 1
    /\ chatPending' = chatPending \cup
           {[n |-> sent + 1, chatMessages |-> chatMessages, memories |-> chatMemories]}
    /\ UNCHANGED <<store, searchVars, chatVars, cosineVars, searchStepVars, request>>
    /\ UNCHANGED memoriesVars
    /\ UNCHANGED <<recordVars, authVars>>

\* handleSendMessage that lets a failure of the Generation Provider escape:
\* no fallback text, no assistant message
AnswerMessageUnlessFailed ==
    \E call \in chatPending :
    \E embedded \in BOOLEAN, generated \in BOOLEAN :
        LET queryEmbedding == IF embedded THEN ChatQuery(call.n) ELSE Null
            relevantMemories == getRelevantMemories(queryEmbedding, call.memories)
            response == [kind |-> "response", n |-> call.n]
        IN /\ grounding' = Grounding(queryEmbedding, call.memories)
           /\ chatCall' = GroundingCall(queryEmbedding, call.memories)
           /\ request' = GenerationRequest(call.n, UserText(call.n), relevantMemories,
                                           call.chatMessages)
           /\ chatMessages' =
                  IF generated
                  THEN Append(chatMessages,
                              Message(call.n, "assistant", response, relevantMemories))
                  ELSE chatMessages
           /\ isProcessing' = FALSE
           /\ chatPending' = chatPending \ {call}
           /\ UNCHANGED <<store, chatMemories, chatLoading, inputMessage, sent>>
           /\ UNCHANGED <<searchVars, cosineVars, searchStepVars>>
           /\ UNCHANGED memoriesVars
           /\ UNCHANGED <<recordVars, authVars>>

\* handleSendMessage from its first await to its finally block, for one of
\* the calls that wait: getRelevantMemories, generateTherapistResponse, the
\* assistant message. The Embedding Provider answers or generateEmbedding
\* resolves to null; the Generation Provider answers, or its call throws and
\* generateTherapistResponse returns its fallback text.
ProviderOutcomes(n) == IF n <= FlakySends THEN BOOLEAN ELSE {TRUE}
AnswerMessage ==
    \E call \in chatPending :
    \E embedded \in ProviderOutcomes(call.n), generated \in ProviderOutcomes(call.n) :
        LET queryEmbedding == IF embedded THEN ChatQuery(call.n) ELSE Null
            relevantMemories == getRelevantMemories(queryEmbedding, call.memories)
            response == [kind |-> IF generated THEN "response" ELSE "fallback", n |-> call.n]
        IN /\ grounding' = Grounding(queryEmbedding, call.memories)
           /\ chatCall' = GroundingCall(queryEmbedding, call.memories)
           /\ request' = GenerationRequest(call.n, UserText(call.n), relevantMemories,
                                           call.chatMessages)
           /\ chatMessages' =
                  Append(chatMessages, Message(call.n, "assistant", response, relevantMemories))
           /\ isProcessing' = FALSE
           /\ chatPending' = chatPending \ {call}
           /\ UNCHANGED <<store, chatMemories, chatLoading, inputMessage, sent>>
           /\ UNCHANGED <<searchVars, cosineVars, searchStepVars>>
           /\ UNCHANGED memoriesVars
           /\ UNCHANGED <<recordVars, authVars>>

NextChat ==
    \/ ChatFetchMemories
    \/ SetInputMessage
    \/ SendMessage
    \/ AnswerMessage

SpecChat == InitChat /\ [][NextChat]_vars

(***************************************************************************)
(* The chat screen with messages sent while a reply is pending             *)
(***************************************************************************)
\* the store of the overlapping sends
OverlapStores == { WithTexts(PatternStore(2, ValidShapes, 1, FALSE)) }

InitOverlap ==
    /\ store \in OverlapStores
    /\ ScreensMounted
    /\ CosineIdle
    /\ SearchIdle
    /\ ChatIdle
    /\ MemoriesIdle
    /\ RecordIdle
    /\ AuthIdle

\* handleSendMessage up to its first await, as SendMessage, with more calls
\* waiting at once: the function tests inputMessage.trim() and nothing else,
\* and onSubmitEditing of the text input runs it while isProcessing is true
SendWhileProcessing ==
    /\ ~chatLoading
    /\ inputMessage
    /\ \E control \in {"button", "input"} :
          control = "button" => ~isProcessing
    /\ sent < MaxOverlapSends
    /\ Cardinality(chatPending) < MaxOverlap
    /\ chatMessages' = Append(chatMessages, Message(sent + 1, "user", UserText(sent + 1), <<>>))
    /\ inputMessage' = FALSE
    /\ isProcessing' = TRUE
    /\ sent' = sent + 1
    /\ chatPending' = chatPending \cup
           {[n |-> sent + 1, chatMessages |-> chatMessages, memories |-> chatMemories]}
    /\ UNCHANGED <<store, searchVars, chatVars, cosineVars, searchStepVars, request>>
    /\ UNCHANGED memoriesVars
    /\ UNCHANGED <<recordVars, authVars>>

NextOverlap ==
    \/ ChatFetchMemories
    \/ SetInputMessage
    \/ SendWhileProcessing
    \/ AnswerMessage

SpecOverlap == InitOverlap /\ [][NextOverlap]_vars

\* a handleSendMessage call that waits comes to its end; the steps of
\* NextOverlap that do this are those of AnswerMessage
PendingCallEnds ==
    \E call \in chatPending : chatPending' = chatPending \ {call}

\* every pending call comes to its end: the requests it awaits settle, with an
\* answer or with a failure
SpecOverlapFair == SpecOverlap /\ WF_chatPending(PendingCallEnds)

(***************************************************************************)
(* The Memories screen, next to the search screen                          *)
(***************************************************************************)
DeleteStores ==
    { PatternStore(2, ValidShapes, 1, FALSE),
      PatternStore(3, ValidShapes, 1, FALSE) }

InitDelete ==
    /\ store \in DeleteStores
    /\ ScreensMounted
    /\ CosineIdle
    /\ SearchIdle
    /\ ChatIdle
    /\ MemoriesIdle
    /\ RecordIdle
    /\ AuthIdle

\* fetchTranscripts, run by the effect at mount and by onRefresh: the session
\* has no user, the query fails, or it returns the rows by created_at
\* descending
FetchTranscripts ==
    /\ \E outcome \in {"no user", "error", "data"}, ties \in {"asc", "desc"} :
          transcripts' =
              CASE outcome = "no user" -> <<>>
                [] outcome = "error" -> transcripts
                [] OTHER -> OrderByCreatedAtDesc(store, ties)
    /\ transcriptsLoading' = FALSE
    /\ UNCHANGED <<store, selectedMemory, modalVisible, deletedIds>>
    /\ UNCHANGED <<searchVars, chatVars, cosineVars, searchStepVars, chatStepVars>>
    /\ UNCHANGED <<recordVars, authVars>>

\* openMemoryModal(memory), for a memory of the list
OpenMemoryModal ==
    /\ ~transcriptsLoading
    /\ \E i \in 1..Len(transcripts) :
          selectedMemory' = transcripts[i].id
    /\ modalVisible' = TRUE
    /\ UNCHANGED <<store, transcripts, transcriptsLoading, deletedIds>>
    /\ UNCHANGED <<searchVars, chatVars, cosineVars, searchStepVars, chatStepVars>>
    /\ UNCHANGED <<recordVars, authVars>>

\* closeMemoryModal
CloseMemoryModal ==
    /\ modalVisible
    /\ modalVisible' = FALSE
    /\ selectedMemory' = 0
    /\ UNCHANGED <<store, transcripts, transcriptsLoading, deletedIds>>
    /\ UNCHANGED <<searchVars, chatVars, cosineVars, searchStepVars, chatStepVars>>
    /\ UNCHANGED <<recordVars, authVars>>

\* rows.filter(m => m.id !== id)
WithoutId(rows, id) == SelectSeq(rows, LAMBDA m : m.id # id)

\* handleDelete(id), from the swipe action of a row of the list: the delete
\* request removes the row from the Memory Store or fails (its result is not
\* read), then the row leaves transcripts and the modal that shows it closes
HandleDelete ==
    /\ ~transcriptsLoading
    /\ \E i \in 1..Len(transcripts), removed \in BOOLEAN :
          LET id == transcripts[i].id
          IN /\ store' = IF removed THEN WithoutId(store, id) ELSE store
             /\ transcripts' = WithoutId(transcripts, id)
             /\ modalVisible' = IF selectedMemory = id THEN FALSE ELSE modalVisible
             /\ selectedMemory' = IF selectedMemory = id THEN 0 ELSE selectedMemory
             /\ deletedIds' = deletedIds \cup {id}
    /\ UNCHANGED transcriptsLoading
    /\ UNCHANGED <<searchVars, chatVars, cosineVars, searchStepVars, chatStepVars>>
    /\ UNCHANGED <<recordVars, authVars>>

NextDelete ==
    \/ FetchTranscripts
    \/ OpenMemoryModal
    \/ CloseMemoryModal
    \/ HandleDelete
    \/ FetchMemories
    \/ PerformSearch

SpecDelete == InitDelete /\ [][NextDelete]_vars

(***************************************************************************)
(* The record screen: stopRecording, callAssemblyAI, saveToSupabase and    *)
(* processAIFeatures, one await at a time                                  *)
(***************************************************************************)
\* what the Transcription Provider makes of a recording: nothing of a silent
\* one
Transcripts == {"", "a happy day", "the report"}

\* a Promise.reject or a thrown error inside an awaited call
Rejects == "rejects"

\* the status the Transcription Provider reports after it reported status
NextStatuses(status) ==
    CASE status = "queued" -> {"queued", "processing", "completed", "error"}
      [] status = "processing" -> {"processing", "completed", "error"}
      [] OTHER -> {status}

\* while (!result): result is st.text once the status is "completed", and the
\* loop runs again while it is null or the empty string
LoopEnds(status, text) == status = "completed" /\ text # ""

\* startRecording, from the record button (disabled while isRecording or
\* isProcessing)
StartRecording ==
    /\ ~isRecording
    /\ ~recordIsProcessing
    /\ recordings < MaxRecordings
    /\ recordings' = recordings + 1
    /\ \E created \in BOOLEAN :
          IF created
          THEN /\ recording' = TRUE
               /\ isRecording' = TRUE
               /\ transcript' = ""
               /\ UNCHANGED recordAlert
          ELSE /\ recordAlert' = "Failed to start recording"
               /\ UNCHANGED <<recording, isRecording, transcript>>
    /\ UNCHANGED <<recordIsProcessing, poll, saving, saves, saved, jobs>>
    /\ UNCHANGED <<store, searchVars, chatVars, cosineVars, searchStepVars>>
    /\ UNCHANGED <<chatStepVars, memoriesVars, authVars>>

\* stopRecording with callAssemblyAI up to its polling loop: stopping, the
\* upload or the transcript request rejects; the recording has no URI; or the
\* Transcription Provider has queued the transcript of the recording
StopRecording ==
    /\ recording
    /\ isRecording
    /\ isRecording' = FALSE
    /\ \E outcome \in {Rejects, "no uri", "queued"}, text \in Transcripts :
          CASE outcome = Rejects ->
                  /\ recordAlert' = "Failed to stop recording"
                  /\ recordIsProcessing' = FALSE
                  /\ UNCHANGED <<recording, poll>>
            [] outcome = "no uri" ->
                  /\ recording' = FALSE
                  /\ recordIsProcessing' = FALSE
                  /\ UNCHANGED <<recordAlert, poll>>
            [] OTHER ->
                  /\ recordIsProcessing' = TRUE
                  /\ poll' = [active |-> TRUE, status |-> "queued", text |-> text,
                              polls |-> 0]
                  /\ UNCHANGED <<recording, recordAlert>>
    /\ UNCHANGED <<transcript, recordings, saving, saves, saved, jobs>>
    /\ UNCHANGED <<store, searchVars, chatVars, cosineVars, searchStepVars>>
    /\ UNCHANGED <<chatStepVars, memoriesVars, authVars>>

\* one round of the polling loop of callAssemblyAI, and the rest of
\* stopRecording when the loop is left: the status request rejects or the
\* status is "error" (the catch and finally of stopRecording), the loop ends
\* with a result (setTranscript, setRecording(null), finally), or it goes on
PollTranscript ==
    /\ poll.active
    /\ poll.polls < MaxPolls
    /\ \E status \in NextStatuses(poll.status) \cup {Rejects} :
          CASE status \in {Rejects, "error"} ->
                  /\ poll' = [poll EXCEPT !.active = FALSE, !.polls = @ + 1,
                                          !.status = IF status = Rejects THEN @ ELSE status]
                  /\ recordAlert' = "Failed to stop recording"
                  /\ recordIsProcessing' = FALSE
                  /\ UNCHANGED <<transcript, recording>>
            [] LoopEnds(status, poll.text) ->
                  /\ poll' = [poll EXCEPT !.active = FALSE, !.polls = @ + 1,
                                          !.status = status]
                  /\ transcript' = poll.text
                  /\ recording' = FALSE
                  /\ recordIsProcessing' = FALSE
                  /\ UNCHANGED recordAlert
            [] OTHER ->
                  /\ poll' = [poll EXCEPT !.polls = @ + 1, !.status = status]
                  /\ UNCHANGED <<transcript, recording, recordIsProcessing, recordAlert>>
    /\ UNCHANGED <<isRecording, recordings, saving, saves, saved, jobs>>
    /\ UNCHANGED <<store, searchVars, chatVars, cosineVars, searchStepVars>>
    /\ UNCHANGED <<chatStepVars, memoriesVars, authVars>>

\* the Discard button under the transcript
DiscardTranscript ==
    /\ transcript # ""
    /\ transcript' = ""
    /\ UNCHANGED <<recording, isRecording, recordIsProcessing, recordAlert, poll,
                   recordings, saving, saves, saved, jobs>>
    /\ UNCHANGED <<store, searchVars, chatVars, cosineVars, searchStepVars>>
    /\ UNCHANGED <<chatStepVars, memoriesVars, authVars>>

\* saveToSupabase(transcript) up to its first await, from the Save button
\* under the transcript
SaveToSupabase ==
    /\ transcript # ""
    /\ saves < MaxSaves
    /\ saves' = saves + 1
    /\ saving' = saving \cup {[n |-> saves + 1, text |-> transcript]}
    /\ UNCHANGED <<recording, isRecording, recordIsProcessing, transcript,
                   recordAlert, poll, recordings, saved, jobs>>
    /\ UNCHANGED <<store, searchVars, chatVars, cosineVars, searchStepVars>>
    /\ UNCHANGED <<chatStepVars, memoriesVars, authVars>>

\* saveToSupabase that reports nothing after the insert: the report is left to
\* the end of the post-processing
saveReportAfterProcessing(user, inserted) ==
    CASE user = Rejects -> "Failed to save memory"
      [] user = "none" -> "User not authenticated"
      [] ~inserted -> "Failed to save memory"
      [] OTHER -> recordAlert

\* the Alert of saveToSupabase: getUser rejects, gives no user or a user; the
\* insert returns an error or the row
saveReport(user, inserted) ==
    CASE user = Rejects -> "Failed to save memory"
      [] user = "none" -> "User not authenticated"
      [] ~inserted -> "Failed to save memory"
      [] OTHER -> "Memory saved!"

\* the row saveToSupabase inserts
Placeholders(text) ==
    [transcript |-> text, title |-> "Processing...", summary |-> "Processing...",
     emotion |-> "neutral", updates |-> 0]

\* f with the value v at k
With(f, k, v) == [j \in DOMAIN f \cup {k} |-> IF j = k THEN v ELSE f[j]]

\* saveToSupabase from its first await on, for one of the calls that wait:
\* with the row inserted it calls processAIFeatures(data.id, text) without
\* await, raises the Alert and clears the transcript
ResolveSave ==
    \E call \in saving, user \in {"user", "none", Rejects}, inserted \in BOOLEAN :
        LET success == user = "user" /\ inserted
        IN /\ saving' = saving \ {call}
           /\ recordAlert' = saveReport(user, inserted)
           /\ transcript' = IF success THEN "" ELSE transcript
           /\ saved' = IF success THEN With(saved, call.n, Placeholders(call.text))
                       ELSE saved
           /\ jobs' = IF success THEN With(jobs, call.n, "running") ELSE jobs
           /\ UNCHANGED <<recording, isRecording, recordIsProcessing, poll,
                          recordings, saves>>
           /\ UNCHANGED <<store, searchVars, chatVars, cosineVars, searchStepVars>>
           /\ UNCHANGED <<chatStepVars, memoriesVars, authVars>>

\* detectEmotion(text) for the transcripts of the model: the keyword "happy"
\* scores for happy, no keyword and no context clue gives neutral
detectEmotion(text) == IF text = "a happy day" THEN "happy" ELSE "neutral"

\* what generateSummary may return: the summary of the provider, or one of
\* its fallback texts; it catches every error
Summaries == {"summary", "Summary generation failed", "Summary generated from transcript"}

\* the outcome of one supabase update request: the row is updated, the
\* request resolves to an error result, or the awaited call rejects
UpdateOutcomes == {"applied", "error", Rejects}

\* the row after an update that was applied
Updated(row, summary, title, emotion) ==
    [row EXCEPT !.summary = summary, !.title = title, !.emotion = emotion,
                !.updates = @ + 1]

\* processAIFeatures(memoryId, transcript) through its try block:
\* generateSummary, generateTitle, detectEmotion (none of them throws), then
\* the update, whose result is not read
ProcessAIFeatures ==
    \E id \in DOMAIN jobs, summary \in Summaries, update \in UpdateOutcomes :
        /\ jobs[id] = "running"
        /\ saved' = IF update = "applied"
                    THEN [saved EXCEPT ![id] =
                             Updated(@, summary, "date", detectEmotion(@.transcript))]
                    ELSE saved
        /\ jobs' = [jobs EXCEPT ![id] = IF update = Rejects THEN "catch" ELSE "done"]
        /\ UNCHANGED <<recording, isRecording, recordIsProcessing, transcript,
                       recordAlert, poll, recordings, saving, saves>>
        /\ UNCHANGED <<store, searchVars, chatVars, cosineVars, searchStepVars>>
        /\ UNCHANGED <<chatStepVars, memoriesVars, authVars>>

\* the catch block of processAIFeatures: the update with the fallback values,
\* whose result is not read either; when it rejects the promise of
\* processAIFeatures rejects, and nothing awaits it
FallbackUpdate ==
    \E id \in DOMAIN jobs, update \in UpdateOutcomes :
        /\ jobs[id] = "catch"
        /\ saved' = IF update = "applied"
                    THEN [saved EXCEPT ![id] =
                             Updated(@, "Summary generation failed", "Memory", "neutral")]
                    ELSE saved
        /\ jobs' = [jobs EXCEPT ![id] = IF update = Rejects THEN "rejected" ELSE "done"]
        /\ UNCHANGED <<recording, isRecording, recordIsProcessing, transcript,
                       recordAlert, poll, recordings, saving, saves>>
        /\ UNCHANGED <<store, searchVars, chatVars, cosineVars, searchStepVars>>
        /\ UNCHANGED <<chatStepVars, memoriesVars, authVars>>

InitRecord ==
    /\ store = <<>>
    /\ ScreensMounted
    /\ CosineIdle
    /\ SearchIdle
    /\ ChatIdle
    /\ MemoriesIdle
    /\ RecordIdle
    /\ AuthIdle

NextRecord ==
    \/ StartRecording
    \/ StopRecording
    \/ PollTranscript
    \/ DiscardTranscript
    \/ SaveToSupabase
    \/ ResolveSave
    \/ ProcessAIFeatures
    \/ FallbackUpdate

SpecRecord == InitRecord /\ [][NextRecord]_vars

(***************************************************************************)
(* Route protection: the tabs layout and useAuthGuard of the root layout   *)
(***************************************************************************)
\* session?.user: null, a user, a user whose metadata says must_change_password
Sessions == {"none", "user", "must change"}

\* the screens of the (tabs) group and of the (auth) group
TabRoutes == {"memories", "record", "therapist", "settings"}
AuthRoutes == {"login", "set-new-password"}

\* a test of the session that never finds it without a user
NoSessionUserNever(s) == FALSE

\* !session?.user, !data.session?.user
NoSessionUser(s) == s = "none"

\* the tabs layout: if (!session?.user) router.replace("/(auth)/login"), after
\* getSession() and in its onAuthStateChange listener
tabsRedirect(s, r) == IF NoSessionUser(s) THEN "login" ELSE r

\* the listener of useAuthGuard, with segments of the route r
guardRedirect(s, r) ==
    IF ~NoSessionUser(s)
    THEN IF s = "must change"
         THEN "set-new-password"
         ELSE IF r \in AuthRoutes THEN "memories" ELSE r
    ELSE IF r \notin AuthRoutes THEN "login" ELSE r

\* the tabs layout is mounted: a tab is the route and the root layout renders
\* its Stack
TabsMounted(r, isLoading) == r \in TabRoutes /\ ~isLoading

\* an auth state event for every listener, for the listener of useAuthGuard
\* or for the listener of the tabs layout
AuthEvent(s, to) == [session |-> s, to |-> to]

\* the INITIAL_SESSION events of the subscriptions a step makes: the effect of
\* useAuthGuard runs again when segments change, the effect of the tabs
\* layout runs when it mounts
Subscribed(r, isLoading, s) ==
    (IF r # route THEN << AuthEvent(s, "guard") >> ELSE <<>>)
    \o (IF TabsMounted(r, isLoading) /\ ~TabsMounted(route, guardLoading)
        THEN << AuthEvent(s, "tabs") >> ELSE <<>>)

\* getSession() is called by the effect of a tabs layout that mounts
Checking(r, isLoading) ==
    sessionCheck \/ (TabsMounted(r, isLoading) /\ ~TabsMounted(route, guardLoading))

\* the app starts: a session may be stored, the route is the login screen or
\* a tab, useAuthGuard has subscribed and the root layout shows its spinner
InitAuth ==
    /\ store = <<>>
    /\ ScreensMounted
    /\ CosineIdle
    /\ SearchIdle
    /\ ChatIdle
    /\ MemoriesIdle
    /\ RecordIdle
    /\ session \in Sessions
    /\ route \in {"login", "memories"}
    /\ sessionCheck = FALSE
    /\ authEvents = << AuthEvent(session, "guard") >>
    /\ guardUser = "none"
    /\ guardLoading = TRUE
    /\ protected = "none"

\* the Auth Provider changes the session on its own (the session expires, the
\* user signs out or in elsewhere) and notifies every listener
AuthStateChange ==
    /\ Len(authEvents) < MaxEvents
    /\ \E s \in Sessions \ {session} :
          /\ session' = s
          /\ authEvents' = Append(authEvents, AuthEvent(s, "all"))
    /\ UNCHANGED <<route, sessionCheck, guardUser, guardLoading, protected>>
    /\ UNCHANGED <<store, searchVars, chatVars, cosineVars, searchStepVars>>
    /\ UNCHANGED <<chatStepVars, memoriesVars, recordVars>>

\* the listeners run for the oldest event: useAuthGuard sets user and
\* loading and redirects by its segments, the tabs layout, when mounted,
\* redirects to the login screen without a session user
DeliverAuthEvent ==
    /\ authEvents # <<>>
    /\ LET event == Head(authEvents)
           toGuard == event.to \in {"all", "guard"}
           toTabs == event.to \in {"all", "tabs"} /\ TabsMounted(route, guardLoading)
           isLoading == IF toGuard THEN FALSE ELSE guardLoading
           guarded == IF toGuard THEN guardRedirect(event.session, route) ELSE route
           r == IF toTabs THEN tabsRedirect(event.session, guarded) ELSE guarded
       IN /\ guardUser' = IF toGuard THEN event.session ELSE guardUser
          /\ guardLoading' = isLoading
          /\ route' = r
          /\ protected' = IF toTabs /\ NoSessionUser(event.session) THEN "event"
                          ELSE protected
          /\ sessionCheck' = Checking(r, isLoading)
          /\ authEvents' = Tail(authEvents) \o Subscribed(r, isLoading, session)
    /\ UNCHANGED session
    /\ UNCHANGED <<store, searchVars, chatVars, cosineVars, searchStepVars>>
    /\ UNCHANGED <<chatStepVars, memoriesVars, recordVars>>

\* getSession() of the tabs layout resolves, with the session of that moment
ResolveSession ==
    /\ sessionCheck
    /\ sessionCheck' = FALSE
    /\ route' = tabsRedirect(session, route)
    /\ protected' = IF NoSessionUser(session) THEN "mount" ELSE protected
    /\ authEvents' = authEvents \o Subscribed(route', guardLoading, session)
    /\ UNCHANGED <<session, guardUser, guardLoading>>
    /\ UNCHANGED <<store, searchVars, chatVars, cosineVars, searchStepVars>>
    /\ UNCHANGED <<chatStepVars, memoriesVars, recordVars>>

\* a screen of the (auth) group, or a link, opens a tab:
\* router.replace("/(tabs)/memories")
OpenTab ==
    /\ ~guardLoading
    /\ route \in AuthRoutes
    /\ Len(authEvents) < MaxEvents
    /\ \E tab \in TabRoutes :
          /\ route' = tab
          /\ sessionCheck' = Checking(tab, guardLoading)
          /\ authEvents' = authEvents \o Subscribed(tab, guardLoading, session)
    /\ UNCHANGED <<session, guardUser, guardLoading, protected>>
    /\ UNCHANGED <<store, searchVars, chatVars, cosineVars, searchStepVars>>
    /\ UNCHANGED <<chatStepVars, memoriesVars, recordVars>>

\* the tab bar
SwitchTab ==
    /\ ~guardLoading
    /\ route \in TabRoutes
    /\ Len(authEvents) < MaxEvents
    /\ \E tab \in TabRoutes \ {route} :
          /\ route' = tab
          /\ authEvents' = authEvents \o Subscribed(tab, guardLoading, session)
    /\ UNCHANGED <<session, sessionCheck, guardUser, guardLoading, protected>>
    /\ UNCHANGED <<store, searchVars, chatVars, cosineVars, searchStepVars>>
    /\ UNCHANGED <<chatStepVars, memoriesVars, recordVars>>

\* handleLogout of the settings screen: await supabase.auth.signOut(), which
\* notifies the listeners, then router.replace("/(auth)/login")
SignOut ==
    /\ ~guardLoading
    /\ route = "settings"
    /\ ~NoSessionUser(session)
    /\ Len(authEvents) < MaxEvents
    /\ session' = "none"
    /\ route' = "login"
    /\ authEvents' = Append(authEvents, AuthEvent("none", "all"))
                        \o Subscribed("login", guardLoading, "none")
    /\ UNCHANGED <<sessionCheck, guardUser, guardLoading, protected>>
    /\ UNCHANGED <<store, searchVars, chatVars, cosineVars, searchStepVars>>
    /\ UNCHANGED <<chatStepVars, memoriesVars, recordVars>>

NextAuth ==
    \/ AuthStateChange
    \/ DeliverAuthEvent
    \/ ResolveSession
    \/ OpenTab
    \/ SwitchTab
    \/ SignOut

SpecAuth == InitAuth /\ [][NextAuth]_vars

(***************************************************************************)
(* cosineSimilarity on its own                                             *)
(***************************************************************************)
InitCosine ==
    /\ store = <<>>
    /\ ScreensMounted
    /\ SearchIdle
    /\ ChatIdle
    /\ MemoriesIdle
    /\ RecordIdle
    /\ AuthIdle
    /\ argA \in CosineArguments
    /\ argB \in CosineArguments
    /\ simAB = NotCalled
    /\ simBA = NotCalled

Called(result) == [similarity |-> result.similarity, denominators |-> result.denominators,
                   threw |-> result.threw, called |-> TRUE]

\* cosineSimilarity(vecA, vecB) and cosineSimilarity(vecB, vecA)
CosineSimilarity ==
    /\ ~simAB.called
    /\ simAB' = Called(cosineEval(argA, argB))
    /\ simBA' = Called(cosineEval(argB, argA))
    /\ UNCHANGED <<store, searchVars, chatVars, searchStepVars, chatStepVars, argA, argB>>
    /\ UNCHANGED memoriesVars
    /\ UNCHANGED <<recordVars, authVars>>

NextCosine == CosineSimilarity

SpecCosine == InitCosine /\ [][NextCosine]_vars

(***************************************************************************)
(* Properties                                                              *)
(***************************************************************************)
Ids(seq) == {seq[i].id : i \in 1..Len(seq)}
SimEq(s, t) == s.n * t.d = t.n * s.d

\* candidate j is ranked before candidate i: a higher similarity, or the same
\* similarity and an earlier place in the candidate list
RankedBefore(scored, j, i) ==
    \/ SimLess(scored[i].similarity, scored[j].similarity)
    \/ SimEq(scored[i].similarity, scored[j].similarity) /\ j < i

\* the positions of the k highest-scoring candidates
TopCandidates(scored, k) ==
    {i \in 1..Len(scored) :
        Cardinality({j \in 1..Len(scored) : RankedBefore(scored, j, i)}) < k}

\* the ids of the candidates whose similarity is not strictly below min
PassingIds(scored, min) ==
    {scored[i].memory.id : i \in {j \in 1..Len(scored) :
                                     ~SimLess(scored[j].similarity, min)}}

\* C1: conversational grounding returns exactly those of the 5 highest-scoring
\* valid candidates whose similarity is not strictly below 0.3; a top-5
\* candidate at exactly 0.3 is returned.
C1_GroundingThreshold ==
    chatCall.called =>
        LET top == TopCandidates(chatCall.scored, TopKChat)
            kept == {i \in top :
                        ~SimLess(chatCall.scored[i].similarity, MinSimilarity)}
        IN /\ \A i \in 1..Len(grounding.value) :
                  ~SimLess(grounding.value[i].similarity, MinSimilarity)
           /\ Ids(grounding.value) = {chatCall.scored[i].memory.id : i \in kept}

NonIncreasing(results) ==
    \A i, j \in 1..Len(results) :
        i < j => SimLeq(results[j].similarity, results[i].similarity)

\* C2: on both screens the sequence returned by performSemanticSearch is in
\* non-increasing order of similarity.
C2_RankedOrder ==
    /\ NonIncreasing(searchResults)
    /\ NonIncreasing(grounding.value)

HasDescent(results) ==
    \E i, j \in 1..Len(results) :
        i < j /\ SimLess(results[j].similarity, results[i].similarity)

\* both screens hold results of different similarities
C2_Witness == HasDescent(searchResults) /\ HasDescent(grounding.value)

\* C3: explicit search never returns more than 20 results and conversational
\* grounding never more than 5; when no more candidates pass (similarity not
\* below 0 on the search screen, not below 0.3 in the chat) than the limit,
\* all of them are returned.
C3_SizeBound ==
    /\ Len(searchResults) <= TopKSearch
    /\ Len(grounding.value) <= TopKChat
    /\ searchCall.called
         /\ Cardinality(PassingIds(searchCall.scored, Zero)) <= TopKSearch
         => PassingIds(searchCall.scored, Zero) \subseteq Ids(searchResults)
    /\ chatCall.called
         /\ Cardinality(PassingIds(chatCall.scored, MinSimilarity)) <= TopKChat
         => PassingIds(chatCall.scored, MinSimilarity) \subseteq Ids(grounding.value)

\* C4: no result of the explicit search has a similarity strictly below 0.
C4_ExplicitThreshold ==
    \A i \in 1..Len(searchResults) : ~SimLess(searchResults[i].similarity, Zero)

\* C5: two results of the search screen with identical similarity appear with
\* the more recent created_at first.
C5_TieBreakByRecency ==
    \A i, j \in 1..Len(searchResults) :
        i < j /\ SimEq(searchResults[i].similarity, searchResults[j].similarity)
            => searchResults[i].created_at >= searchResults[j].created_at

\* results hold a tie between memories created at different times
C5_Witness ==
    \E i, j \in 1..Len(searchResults) :
        /\ i < j
        /\ SimEq(searchResults[i].similarity, searchResults[j].similarity)
        /\ searchResults[i].created_at > searchResults[j].created_at

\* C6: when no candidate of the last getRelevantMemories reaches 0.3 (also
\* when it had no candidate), it returned the empty list, as a value.
C6_EmptyOutcome ==
    grounding.status # "none" =>
        /\ grounding.status = "returned"
        /\ (\A i \in 1..Len(chatCall.scored) :
                SimLess(chatCall.scored[i].similarity, MinSimilarity))
             => grounding.value = <<>>

\* candidates were scored, all below 0.3, and the empty list came back
C6_Witness ==
    /\ grounding.status = "returned"
    /\ chatCall.called
    /\ \A i \in 1..Len(chatCall.scored) :
           SimLess(chatCall.scored[i].similarity, MinSimilarity)
    /\ \E i \in 1..Len(chatCall.scored) :
           SimLess(Zero, chatCall.scored[i].similarity)
    /\ grounding.value = <<>>

\* the array a stored embedding carries: the array itself, the array its JSON
\* text denotes, or the array in its values field
CarriesArray(v) ==
    \/ v.kind = "array"
    \/ v.kind \in {"string", "object"} /\ v.json = "array"

\* a stored embedding that is absent or invalid: no array at all, an array of
\* fewer than 768 elements, or a non-number among its first 768 elements
StoredInvalid(v) ==
    \/ ~CarriesArray(v)
    \/ v.arr.len < EMBEDDING_DIM
    \/ \E i \in v.arr.nn : i <= EMBEDDING_DIM

\* a stored embedding of exactly 768 numbers, in any of the three encodings
StoredCanonical(v) ==
    CarriesArray(v) /\ v.arr.len = EMBEDDING_DIM /\ v.arr.nn = {}

InvalidIds == {i \in 1..Len(store) : StoredInvalid(store[i].embedding)}
CanonicalIds == {i \in 1..Len(store) : StoredCanonical(store[i].embedding)}

\* C7: a memory whose stored embedding is invalid or absent appears in no
\* search or grounding result, yet stays in the loaded memories lists; the
\* memories stored with 768 numbers are the ones a search returns.
C7_InvalidExcludedButListed ==
    /\ Ids(searchResults) \cap InvalidIds = {}
    /\ Ids(grounding.value) \cap InvalidIds = {}
    /\ memories # <<>> => InvalidIds \subseteq Ids(memories)
    /\ chatMemories # <<>> => InvalidIds \subseteq Ids(chatMemories)
    /\ searchCall.called /\ Len(searchCall.scored) <= TopKSearch
         => CanonicalIds \subseteq Ids(searchResults)

\* a search returned the valid memories of a store that also holds an invalid
\* one of 768 elements, which is still listed
C7_Witness ==
    /\ searchResults # <<>>
    /\ grounding.value # <<>>
    /\ \E i \in InvalidIds :
          /\ store[i].embedding.kind = "array"
          /\ store[i].embedding.arr.len = EMBEDDING_DIM
          /\ i \in Ids(memories) /\ i \notin Ids(searchResults)
          /\ i \in Ids(chatMemories) /\ i \notin Ids(grounding.value)

\* element i of an array: <<is it a number, its value>>
ElementAt(a, i) == IF i \in a.nn THEN <<FALSE, 0>> ELSE <<TRUE, Elem(a, i)>>

\* v is the array of the first 768 elements of a, in the same order
IsFirstElementsOf(v, a) ==
    /\ v.kind = "array"
    /\ v.arr.len = EMBEDDING_DIM
    /\ \A i \in 1..EMBEDDING_DIM : ElementAt(v.arr, i) = ElementAt(a, i)
    /\ DOMAIN v.arr.at \cup v.arr.nn \subseteq 1..EMBEDDING_DIM

\* the length policy for an array a: what the normalised embedding v must be
LengthPolicy(v, a) ==
    /\ a.len = EMBEDDING_DIM => v = ArrayValue(a)
    /\ a.len > EMBEDDING_DIM => IsFirstElementsOf(v, a)
    /\ a.len < EMBEDDING_DIM => v = Null

Loaded == {memories, chatMemories}

\* C8: a stored array of length 768 is kept unchanged, a longer one is
\* replaced by its first 768 elements in order, a shorter one becomes null.
C8_ArrayLengthPolicy ==
    \A mems \in Loaded : \A i \in 1..Len(mems) :
        LET stored == store[mems[i].id].embedding
        IN stored.kind = "array" => LengthPolicy(mems[i].embedding, stored.arr)

\* a loaded list holds a truncated, a kept and a rejected array
C8_Witness ==
    \E mems \in Loaded : \E i, j, k \in 1..Len(mems) :
        /\ store[mems[i].id].embedding.kind = "array"
        /\ store[mems[i].id].embedding.arr.len > EMBEDDING_DIM
        /\ mems[i].embedding.kind = "array"
        /\ mems[i].embedding # store[mems[i].id].embedding
        /\ store[mems[j].id].embedding.kind = "array"
        /\ store[mems[j].id].embedding.arr.len = EMBEDDING_DIM
        /\ store[mems[k].id].embedding.kind = "array"
        /\ store[mems[k].id].embedding.arr.len \in 1..(EMBEDDING_DIM - 1)
        /\ mems[k].embedding = Null

\* C9: JSON text and records with a values field get the length policy of a
\* bare array, applied to the parsed or unwrapped array; unparseable text is
\* rejected.
C9_UniformLengthPolicy ==
    \A mems \in Loaded : \A i \in 1..Len(mems) :
        LET stored == store[mems[i].id].embedding
        IN /\ stored.kind \in {"string", "object"} /\ stored.json = "array"
                => LengthPolicy(mems[i].embedding, stored.arr)
           /\ stored.kind = "string" /\ stored.json = "malformed"
                => mems[i].embedding = Null

\* C10: every embedding the ranker passes to cosineSimilarity has exactly 768
\* components, all numbers; a loaded memory whose normalised embedding is
\* null, of another length or holds a non-number is not scored.
ScoredIds(call) == {call.scored[i].memory.id : i \in 1..Len(call.scored)}

IsCanonical(v) ==
    v.kind = "array" /\ v.arr.len = EMBEDDING_DIM /\ v.arr.nn = {}

C10_CanonicalDimension ==
    /\ \A call \in {searchCall, chatCall} : \A i \in 1..Len(call.scored) :
           IsCanonical(call.scored[i].memory.embedding)
    /\ \A i \in 1..Len(memories) :
           ~IsCanonical(memories[i].embedding)
               => memories[i].id \notin ScoredIds(searchCall)
    /\ \A i \in 1..Len(chatMemories) :
           ~IsCanonical(chatMemories[i].embedding)
               => chatMemories[i].id \notin ScoredIds(chatCall)

\* a ranking scored some memories and left out one that passed performSearch's
\* own filter: 768 elements, one of them not a number
C10_Witness ==
    /\ searchCall.called
    /\ searchCall.scored # <<>>
    /\ \E i \in 1..Len(memories) :
          /\ hasEmbedding(memories[i])
          /\ memories[i].embedding.arr.len = EMBEDDING_DIM
          /\ memories[i].embedding.arr.nn # {}
          /\ memories[i].id \notin ScoredIds(searchCall)

(***************************************************************************)
(* Properties of cosineSimilarity                                          *)
(***************************************************************************)
\* an array all of whose elements are numbers other than NaN
NumericVector(v) == IsArray(v) /\ v.arr.nn = {} /\ v.arr.nan = {}
EqualLength(a, b) == IsArray(a) /\ IsArray(b) /\ a.arr.len = b.arr.len
\* a vector of at least one element, all of them 0
ZeroVector(v) == NumericVector(v) /\ v.arr.len > 0 /\ DOMAIN v.arr.at = {}

\* C11: for two numeric vectors of equal length, cosineSimilarity(a, b) and
\* cosineSimilarity(b, a) return the same number.
C11_Symmetry ==
    (simAB.called /\ NumericVector(argA) /\ NumericVector(argB) /\ EqualLength(argA, argB))
        => /\ simAB.similarity = simBA.similarity
           /\ ~simAB.threw /\ ~simBA.threw

\* two different vectors that are neither orthogonal nor parallel
C11_Witness ==
    /\ simAB.called /\ NumericVector(argA) /\ NumericVector(argB)
    /\ EqualLength(argA, argB)
    /\ argA # argB
    /\ simAB.similarity # Zero
    /\ simAB.similarity.n # simAB.similarity.d
    /\ simAB.similarity.n # 0 - simAB.similarity.d

\* the arguments cosineSimilarity is not defined on
Malformed(a, b) ==
    \/ ~IsArray(a) \/ ~IsArray(b)
    \/ a.arr.len # b.arr.len
    \/ a.arr.nn # {} \/ a.arr.nan # {}
    \/ b.arr.nn # {} \/ b.arr.nan # {}
    \/ (a.arr.len = 0 /\ b.arr.len = 0)

\* C12: on arguments of unequal length, an argument that is no array, an
\* element that is no number or is NaN, or two empty vectors, cosineSimilarity
\* throws nothing and returns exactly 0.
C12_MalformedGivesZero ==
    (simAB.called /\ Malformed(argA, argB))
        => /\ ~simAB.threw
           /\ simAB.similarity = Zero

\* a NaN element in the second argument, the first a non-zero numeric vector
\* of the same length
C12_Witness ==
    /\ simAB.called
    /\ NumericVector(argA) /\ DOMAIN argA.arr.at # {}
    /\ EqualLength(argA, argB)
    /\ argB.arr.nan # {} /\ argB.arr.nn = {}
    /\ simAB.similarity = Zero

\* C13: with an all-zero vector as either argument (the other numeric and of
\* the same length) cosineSimilarity returns exactly 0 and divides by no 0.
C13_ZeroVector ==
    (/\ simAB.called /\ NumericVector(argA) /\ NumericVector(argB)
     /\ EqualLength(argA, argB)
     /\ (ZeroVector(argA) \/ ZeroVector(argB)))
        => /\ simAB.similarity = Zero
           /\ simBA.similarity = Zero
           /\ \A k \in DOMAIN simAB.denominators : simAB.denominators[k] # 0
           /\ \A k \in DOMAIN simBA.denominators : simBA.denominators[k] # 0

\* a non-zero vector against the all-zero vector of its length
C13_Witness ==
    /\ simAB.called
    /\ NumericVector(argA) /\ DOMAIN argA.arr.at # {}
    /\ ZeroVector(argB)
    /\ EqualLength(argA, argB)
    /\ simAB.similarity = Zero /\ simBA.similarity = Zero

(***************************************************************************)
(* Properties of the search screen                                         *)
(***************************************************************************)
\* what a search for the text of QueryTexts[query] finds in the loaded memories
ResultsFor(query) ==
    performSemanticSearch(QueryTexts[query], memoriesWithEmbeddings(memories))

\* C14: once no search is in flight, and the search submitted last has come
\* back with results, searchResults holds the results of that search and not
\* those of a search submitted before it.
C14_LatestSearchWins ==
    (pending = {} /\ latest.outcome = "results")
        => searchResults = ResultsFor(latest.query)

(***************************************************************************)
(* Properties of the chat screen                                           *)
(***************************************************************************)

\* the lines of a memoryContext that present a memory
IsMemoryLine(line) == line.kind = "memory"
MemoryLinesIn(context) == SelectSeq(context, IsMemoryLine)

\* C19: the memory section of the prompt lists the memories that
\* getRelevantMemories returned, in the order it returned them, each with the
\* date of its created_at and its transcript; no line of it is a similarity.
C19_ContextInRankOrder ==
    request.n # 0 =>
        LET ranked == grounding.value
            lines == MemoryLinesIn(request.memoryContext)
        IN /\ Len(lines) = Len(ranked)
           /\ \A i \in 1..Len(lines) :
                 /\ lines[i].memory = ranked[i].id
                 /\ lines[i].date = LocaleDate(ranked[i].created_at)
                 /\ lines[i].text = ranked[i].transcript
           /\ \A i \in 1..Len(request.memoryContext) :
                 request.memoryContext[i].kind \in {"heading", "memory", "summary", "blank"}

\* a prompt with two memories whose rank order is not the order of the loaded
\* list (newest first), with different scores, one of them with a summary
C19_Witness ==
    /\ request.n # 0
    /\ Len(grounding.value) >= 2
    /\ grounding.value[1].created_at < grounding.value[2].created_at
    /\ grounding.value[1].similarity # grounding.value[2].similarity
    /\ \E i \in 1..Len(request.memoryContext) : request.memoryContext[i].kind = "summary"
    /\ Len(MemoryLinesIn(request.memoryContext)) = Len(grounding.value)

\* the messages in front of the user message the last request was made for
PriorTurns ==
    LET at == CHOOSE i \in 1..Len(chatMessages) :
                  chatMessages[i].role = "user" /\ chatMessages[i].n = request.n
    IN SubSeq(chatMessages, 1, at - 1)
\* the turns the last request carries between the system prompt and the message
CarriedTurns == SubSeq(request.contents, 2, Len(request.contents) - 1)

\* C20: the generation request carries the 6 most recent of the turns in
\* front of the message it answers (all of them when there are fewer), in
\* their order, in its contents and in the conversation history of its prompt.
C20_BoundedWindow ==
    request.n # 0 =>
        LET k == Len(CarriedTurns)
            dropped == Len(PriorTurns) - k
        IN /\ k <= 6
           /\ k = Min(6, Len(PriorTurns))
           /\ \A i \in 1..k :
                 /\ CarriedTurns[i].text = PriorTurns[dropped + i].content
                 /\ CarriedTurns[i].role =
                        (IF PriorTurns[dropped + i].role = "user" THEN "user" ELSE "model")
           /\ Len(request.conversationHistory) = k
           /\ \A i \in 1..k :
                 request.conversationHistory[i].content = PriorTurns[dropped + i].content
           /\ request.contents[Len(request.contents)].text = UserText(request.n)

\* a request made with more than 6 turns in front of its message
C20_Witness ==
    /\ request.n # 0
    /\ Len(PriorTurns) > 6
    /\ Len(CarriedTurns) = 6

\* C16: when the Embedding Provider fails, getRelevantMemories does not return
\* what it returns when the retrieval worked and no memory matched, the empty
\* list.
C16_UnavailableIsNotNoMatches ==
    (grounding.status = "returned" /\ grounding.embedding = "failed")
        => grounding.value # <<>>

(***************************************************************************)
(* Properties of the Memories screen                                       *)
(***************************************************************************)

\* the ids held by the relevantMemories of the chat messages
RelevantMemoryIds ==
    UNION {Ids(chatMessages[i].relevantMemories) : i \in 1..Len(chatMessages)}

\* C15: a memory that handleDelete(id) has run to its end for, and that is
\* gone from the Memory Store, is in none of the lists the screens hold: the
\* Memories list, the detail modal, the memories and searchResults of the
\* search screen, the relevantMemories of the chat messages.
C15_DeletedEverywhere ==
    \A id \in deletedIds :
        id \notin Ids(store) =>
            /\ id \notin Ids(transcripts)
            /\ selectedMemory # id
            /\ id \notin Ids(memories)
            /\ id \notin Ids(searchResults)
            /\ id \notin RelevantMemoryIds

(***************************************************************************)
(* Properties of the search screen: failures and empty states              *)
(***************************************************************************)

\* what the search screen shows: the Alert raised last, the result list when
\* searchResults is not empty, and the notice under the search box
View ==
    [spinner |-> loading,
     alert |-> alert,
     results |-> IF Len(searchResults) > 0 THEN Ids(searchResults) ELSE {},
     notice |-> CASE Len(memories) = 0 -> "No Memories Yet"
                  [] Len(memoriesWithEmbeddings(memories)) = 0 -> "No Searchable Memories"
                  [] OTHER -> "none"]

\* the memories and loading flag a fetch that succeeds with these rows leaves
AfterFetchOf(rows) ==
    [memories |-> ProcessMemories(OrderByCreatedAtDesc(rows, "desc")), loading |-> FALSE]

\* C17: after a fetch of the memories that failed, the state of the screen is
\* not the state a successful fetch of zero memories leaves, and no ranking
\* runs over the list afterwards.
C17_StoreFailureVisible ==
    fetchResult = "error" =>
        /\ [memories |-> memories, loading |-> loading] # AfterFetchOf(<<>>)
        /\ ~searchCall.called

\* the search submitted last has ended and no other is in flight
SearchEnded == pending = {} /\ latest.outcome \notin {"none", "pending"}
\* (a) the ranking ran and returned no results
RankedNoResults == latest.outcome = "results" /\ searchResults = <<>>
\* (b) the retrieval was unavailable: the Embedding Provider or the Auth
\* Provider failed for the search, or the Memory Store failed at the fetch
RetrievalUnavailable ==
    \/ latest.outcome \in {"Failed to process search query", "Search failed"}
    \/ fetchResult = "error"
\* (c) memories exist and none has an embedding the ranker accepts
NoUsableEmbedding ==
    Len(memories) > 0 /\ Len(memoriesWithValidEmbeddings(memories)) = 0

\* the conditions among (a), (b), (c) that hold
EmptyConditions ==
    {c \in {"a", "b", "c"} :
        \/ c = "a" /\ RankedNoResults
        \/ c = "b" /\ RetrievalUnavailable
        \/ c = "c" /\ NoUsableEmbedding}

\* C18: at the end of a search, "the ranking ran and returned no results" and
\* "memories exist but none has a usable embedding" are told apart by what the
\* screen shows: no screen stands for both when the retrieval was available.
C18_DistinctEmptyStates ==
    (SearchEnded /\ View.alert = "none")
        => {"a", "c"} # EmptyConditions

\* C21: when getRelevantMemories returned the empty list, the prompt has no
\* memory section, neither heading nor any other line, and the request still
\* carries the recent turns, in the conversation history and in its contents.
C21_UngroundedComposition ==
    (request.n # 0 /\ grounding.value = <<>>)
        => /\ request.memoryContext = <<>>
           /\ Len(request.conversationHistory) = Min(6, Len(PriorTurns))
           /\ Len(CarriedTurns) = Min(6, Len(PriorTurns))
           /\ \A i \in 1..Len(CarriedTurns) :
                 CarriedTurns[i].text = request.conversationHistory[i].content

\* an ungrounded request made in the middle of a conversation
C21_Witness ==
    /\ request.n # 0
    /\ grounding.value = <<>>
    /\ Len(PriorTurns) >= 2
    /\ Len(request.conversationHistory) >= 2
    /\ request.memoryContext = <<>>

(***************************************************************************)
(* The step order of the chat ranker                                       *)
(***************************************************************************)

\* the specified algorithm over the scored candidates: apply the threshold,
\* sort descending, take the first TopKChat
ThresholdSortTake(scored) ==
    LET sorted == SortBySimilarityDesc(SelectSeq(scored, AboveThreshold))
    IN WithSimilarity(SubSeq(sorted, 1, Min(TopKChat, Len(sorted))))

\* the candidates of the last ranking that pass the threshold
PassingCandidates ==
    {i \in 1..Len(chatCall.scored) : AboveThreshold(chatCall.scored[i])}

\* C25: whatever the query and the candidates, the list the chat ranker returns
\* (sort, first 5, threshold) is the sequence the specified order (threshold,
\* sort, first 5) gives over the same scored candidates.
C25_StepOrderEquivalence ==
    chatCall.called => grounding.value = ThresholdSortTake(chatCall.scored)

\* a ranking over more than 5 candidates, in stored order not sorted, where
\* some of the 5 best fail the threshold and some pass it
C25_Witness ==
    /\ chatCall.called
    /\ Len(chatCall.scored) > TopKChat
    /\ chatCall.scored # SortBySimilarityDesc(chatCall.scored)
    /\ Cardinality(PassingCandidates) \in 1..(TopKChat - 1)
    /\ Len(grounding.value) = Cardinality(PassingCandidates)

(***************************************************************************)
(* A search that ends without a ranking                                    *)
(***************************************************************************)

\* the Alerts of the four ends of performSearch that rank nothing
Unranked ==
    {"Search failed", "User not authenticated",
     "Failed to process search query", "No searchable memories"}

\* C26: a step in which a performSearch call ends with one of the four Alerts
\* (no user, no query embedding, no searchable memory, an exception) leaves
\* searchResults as it was.
C26_UnrankedKeepsResults ==
    [][(pending' # pending /\ pending' \subseteq pending /\ alert' \in Unranked)
          => searchResults' = searchResults]_vars

\* the last search ended without a ranking and the screen still lists the
\* results of an earlier query, which are not those of the query now shown
C26_Witness ==
    /\ pending = {}
    /\ latest.outcome \in Unranked
    /\ alert \in Unranked
    /\ searchResults # <<>>
    /\ searchQuery = latest.query
    /\ searchResults # ResultsFor(latest.query)

(***************************************************************************)
(* handleDelete and the Memory Store                                       *)
(***************************************************************************)

\* C30: a memory handleDelete(id) has run for leaves the displayed transcripts
\* only if the remote delete removed it: while it still exists in the Memory
\* Store it is still listed.
C30_DeleteKeepsListConsistent ==
    \A id \in deletedIds :
        id \in Ids(store) => id \in Ids(transcripts)

(***************************************************************************)
(* The send pipeline of the chat screen                                    *)
(***************************************************************************)

\* the positions of chatMessages that hold the message n with the given role
TurnsOf(n, role) ==
    {i \in 1..Len(chatMessages) :
        chatMessages[i].n = n /\ chatMessages[i].role = role}

\* C27: at most one handleSendMessage is in flight, the turns of chatMessages
\* alternate between user and assistant, and isProcessing is true exactly
\* while a reply is pending.
C27_SinglePipeline ==
    /\ Cardinality(chatPending) <= 1
    /\ \A i \in 1..Len(chatMessages) :
          chatMessages[i].role = IF i % 2 = 1 THEN "user" ELSE "assistant"
    /\ isProcessing <=> chatPending # {}

\* the message n of the user is in chatMessages
Asked(n) == TurnsOf(n, "user") # {}
\* one assistant message answers the message n, behind it, with the reply or
\* the fallback text
AnsweredOnce(n) ==
    /\ Cardinality(TurnsOf(n, "assistant")) = 1
    /\ \A i \in TurnsOf(n, "user"), j \in TurnsOf(n, "assistant") :
          /\ i < j
          /\ chatMessages[j].content.kind \in {"response", "fallback"}
          /\ chatMessages[j].content.n = n

\* C28: a message of the user is never answered twice; while it has no answer
\* its handleSendMessage call is still waiting; and it is eventually answered
\* by exactly one assistant message, reply or fallback.
C28_AnsweredExactlyOnce ==
    /\ [](\A n \in 1..sent :
             /\ Asked(n)
             /\ Cardinality(TurnsOf(n, "user")) = 1
             /\ Cardinality(TurnsOf(n, "assistant")) <= 1
             /\ (TurnsOf(n, "assistant") = {}) <=> (\E call \in chatPending : call.n = n)
             /\ (TurnsOf(n, "assistant") # {}) => AnsweredOnce(n))
    /\ \A n \in 1..MaxOverlapSends : Asked(n) ~> AnsweredOnce(n)

\* two messages answered with the fallback text after both providers failed,
\* the second sent while the first was waiting
C28_Witness ==
    /\ chatPending = {}
    /\ sent >= 2
    /\ \A n \in 1..2 :
          /\ AnsweredOnce(n)
          /\ \A j \in TurnsOf(n, "assistant") :
                /\ chatMessages[j].content.kind = "fallback"
                /\ chatMessages[j].relevantMemories = <<>>
    /\ chatMessages[2].role = "user"

(***************************************************************************)
(* Properties of the record screen                                         *)
(***************************************************************************)

\* the rows inserted by the step
Inserted == DOMAIN saved' \ DOMAIN saved

\* C22: the step of saveToSupabase in which the insert succeeds raises the
\* success Alert and clears the transcript while processAIFeatures has only
\* been started; and no step of processAIFeatures, whatever its outcome,
\* changes the Alert or the transcript.
C22_FireAndForgetSave ==
    [][/\ Inserted # {} =>
             /\ recordAlert' = "Memory saved!"
             /\ transcript' = ""
             /\ \A id \in Inserted : jobs'[id] = "running"
       /\ (Inserted = {} /\ jobs' # jobs) =>
             /\ recordAlert' = recordAlert
             /\ transcript' = transcript]_vars

\* the save was reported, the transcript is cleared, and the post-processing
\* of the row then failed in both its updates
C22_Witness ==
    /\ recordAlert = "Memory saved!"
    /\ transcript = ""
    /\ \E id \in DOMAIN jobs : jobs[id] = "rejected" /\ saved[id].updates = 0

\* the processAIFeatures call of the row id has come to its end
Processed(id) == jobs[id] \in {"done", "rejected"}

\* C23: once processAIFeatures has ended for a saved memory, exactly one
\* update was applied to it and its title and summary are no longer the
\* placeholders.
C23_PopulatedExactlyOnce ==
    \A id \in DOMAIN saved :
        Processed(id) =>
            /\ saved[id].updates = 1
            /\ saved[id].title # "Processing..."
            /\ saved[id].summary # "Processing..."

\* C29: once the Transcription Provider has reported "completed" or "error"
\* the polling loop is over and the screen has left isProcessing, whatever the
\* transcript text.
C29_PollingTerminates ==
    poll.status \in {"completed", "error"} =>
        /\ ~poll.active
        /\ ~recordIsProcessing

(***************************************************************************)
(* Route protection                                                        *)
(***************************************************************************)

\* C24: with no session user, once the getSession() call of the tabs layout
\* has resolved and the auth state events have reached the listeners, the
\* screen shown is no tab.
C24_RouteProtection ==
    (session = "none" /\ ~guardLoading /\ ~sessionCheck /\ authEvents = <<>>)
        => route \notin TabRoutes

\* the session ended while a tab was shown to its user, the listener of the
\* tabs layout replaced the tab by the login screen, and nothing is pending
C24_Witness ==
    /\ session = "none"
    /\ protected = "event"
    /\ guardUser = "none"
    /\ ~guardLoading
    /\ ~sessionCheck
    /\ authEvents = <<>>
    /\ route = "login"

====
